---- MODULE Spec2Model ----
(***************************************************************************)
(* Message passing and aggregation of 26_gnn_basics.ipynb: neighbour       *)
(* gather (message_passing), the three aggregation operators               *)
(* (aggregate_messages, aggregate_mean, aggregate_max) and the calls that  *)
(* the graph-convolution layers make to them, and the models built on      *)
(* them.  Further sections follow the other notebooks: the generator and   *)
(* discriminator of the GAN, the TorchScript export (trace, script, save,  *)
(* load) of 29_exporting_models_torchscript.ipynb and the /predict         *)
(* handler of 30_deploying_with_flask.ipynb.                               *)
(*                                                                         *)
(* A float is modelled as an exact extended rational <<n, d>>: d > 0 is    *)
(* the finite value n/d in lowest terms, <<-1, 0>> is float('-inf'),       *)
(* <<1, 0>> is +inf and <<0, 0>> is NaN.  A sum is rounded as float32      *)
(* rounds it from magnitude 2^24 on; below that, values are kept exact.    *)
(* A 2-d tensor is [n |-> rows, c |-> columns, rows |-> <<row, ...>>];     *)
(* node v (0-based in the code) is rows[v + 1].                            *)
(***************************************************************************)
EXTENDS Integers, Sequences, FiniteSets, TLC

\* ------------------------------------------------------------ bounds
MaxNodes == 2
MaxEdges == 2
\* columns of the notebook's feature matrix x
FeatDim == 2
\* feature values of the bounded graphs
Vals == {-1, 1}

\* ------------------------------------------------------------ state
VARIABLES
    x,           \* node feature matrix of the call
    edge_index,  \* <<source indices, target indices>>
    pc,          \* "call", "gathered", "max_loop", "aggregated", "updated",
                 \* "projected", "returned", "error"
    op,          \* the aggregation operator applied: "none", "sum", "mean", "max"
    messages,    \* result of message_passing
    counts,      \* aggregate_mean's divisors
    i,           \* loop index of aggregate_max
    aggregated,  \* the aggregated matrix (aggregate_max: the matrix being filled)
    err,         \* the exception that ended the call, or "none"
    linear,      \* self.linear of the layer: [in, out, W, b]
    updated,     \* result of update_nodes
    projected,   \* result of self.linear(updated)
    out,         \* result of F.relu(out), the layer's output
    log,         \* per layer class, the values of its last finished forward call
    model,       \* the nn.Module: layers, parameters, bn1's buffers, training flag
    optimizer,   \* the Adam optimizer: [step]
    fn,          \* the function running: "none", "train", "evaluate", "infer"
    mpc,         \* where that function is: "idle", "mode", "forward", "next",
                 \* "conv", "bn", "dropout", "forwarded", "step", "raised"
    data,        \* the GraphData passed to the function: [x, edge_index]
    layer,       \* the layer of the model that is running (conv1 is 1)
    feat,        \* the local x of the model's forward
    layer_out,   \* the output of the layer that returned last in this forward
    result,      \* what the function that ended last returned: [fn, val]
    modules,     \* TorchScript notebook: the module bound to each name
    files,       \* TorchScript notebook: the archive in each file
    outs,        \* TorchScript notebook: the output bound to each output name
    model_file,  \* Flask notebook: project/model.pth: [exists, state_dict]
    app,         \* Flask notebook: "stopped", "running", "failed"
    app_model,   \* Flask notebook: the model the running app holds
    request,     \* Flask notebook: the body of the request being handled
    response,    \* Flask notebook: [status, body] the handler answered
    net,         \* GAN notebook: "none", "generator", "discriminator"
    arg,         \* GAN notebook: shape of the tensor forward was called on
    pos,         \* GAN notebook: modules of self.main applied so far
    shape,       \* GAN notebook: shape of the tensor passed along self.main
    fake_images, \* GAN notebook: shape of generator(noise), <<>> before
    gan_err      \* GAN notebook: the exception that ended the forward, or "none"

kernelVars == <<x, edge_index, pc, op, messages, counts, i, aggregated, err>>
layerVars == <<linear, updated, projected, out, log>>
modelVars == <<model, optimizer, fn, mpc, data, layer, feat, layer_out, result>>
exportVars == <<modules, files, outs>>
appVars == <<model_file, app, app_model, request, response>>
ganVars == <<net, arg, pos, shape, fake_images, gan_err>>
restVars == <<exportVars, appVars, ganVars>>
vars == <<kernelVars, layerVars, modelVars, restVars>>

\* ------------------------------------------------------------ numbers
Num(k) == <<k, 1>>
NegInf == <<-1, 0>>
PosInf == <<1, 0>>
NaN == <<0, 0>>

Abs(k) == IF k < 0 THEN -k ELSE k

RECURSIVE GCD(_, _)
GCD(a, b) == IF b = 0 THEN a ELSE GCD(b, a % b)

Sign(k) == IF k > 0 THEN 1 ELSE IF k < 0 THEN -1 ELSE 0

\* n/d as a float value: lowest terms, or an infinity / NaN when d = 0
Norm(n, d) ==
    IF d = 0 THEN <<Sign(n), 0>>
    ELSE LET s == Sign(d)
             g == GCD(Abs(n), Abs(d))
         IN <<(s * n) \div g, (s * d) \div g>>

IsFinite(a) == a[2] > 0

\* bits of the significand of torch.float32
Significand == 24

\* a finite value as float32 holds it: from 2^24 on, where the spacing of
\* float32 is 2 or more, it is rounded to the nearest multiple of the
\* spacing, ties to the even significand; below 2^24 it is kept as it is
Float32(a) ==
    LET mag == Abs(a[1])
        top == 2 ^ Significand
    IN IF mag \div a[2] < top THEN a
       ELSE LET ulp == CHOOSE u \in {2 ^ e : e \in 1..6} :
                          /\ mag \div (a[2] * u) < top
                          /\ u = 2 \/ mag \div (a[2] * (u \div 2)) >= top
                q == mag \div (a[2] * ulp)
                r == mag % (a[2] * ulp)
                m == IF 2 * r > a[2] * ulp THEN q + 1
                     ELSE IF 2 * r < a[2] * ulp THEN q
                     ELSE q + (q % 2)
            IN <<Sign(a[1]) * m * ulp, 1>>

\* float addition
Add(a, b) ==
    IF IsFinite(a) /\ IsFinite(b)
    THEN Float32(Norm(a[1] * b[2] + b[1] * a[2], a[2] * b[2]))
    ELSE IF a = NaN \/ b = NaN THEN NaN
    ELSE IF IsFinite(a) THEN b
    ELSE IF IsFinite(b) THEN a
    ELSE IF a = b THEN a ELSE NaN

\* a <= b on non-NaN floats
Leq(a, b) ==
    IF IsFinite(a) /\ IsFinite(b) THEN a[1] * b[2] <= b[1] * a[2]
    ELSE IF a = b THEN TRUE
    ELSE a = NegInf \/ b = PosInf

\* mutant of MaxNum: torch.min
MaxNum_asMin(a, b) ==
    IF a = NaN \/ b = NaN THEN NaN
    ELSE IF Leq(a, b) THEN a ELSE b

\* torch.max(a, b) on scalars (NaN propagates)
MaxNum(a, b) ==
    IF a = NaN \/ b = NaN THEN NaN
    ELSE IF Leq(a, b) THEN b ELSE a

\* float division a / b
DivNum(a, b) ==
    IF a = NaN \/ b = NaN THEN NaN
    ELSE IF IsFinite(a) /\ IsFinite(b) THEN Norm(a[1] * b[2], a[2] * b[1])
    ELSE IF IsFinite(a) THEN Num(0)
    ELSE IF IsFinite(b) THEN <<a[1] * (IF b[1] < 0 THEN -1 ELSE 1), 0>>
    ELSE NaN

\* float multiplication (inf * 0 is NaN)
Mul(a, b) ==
    IF a = NaN \/ b = NaN THEN NaN
    ELSE IF IsFinite(a) /\ IsFinite(b) THEN Norm(a[1] * b[1], a[2] * b[2])
    ELSE IF a[1] = 0 \/ b[1] = 0 THEN NaN
    ELSE <<Sign(a[1]) * Sign(b[1]), 0>>

\* F.relu on a scalar: max(a, 0), NaN staying NaN
ReluNum(a) ==
    IF a = NaN THEN NaN
    ELSE IF Leq(a, Num(0)) THEN Num(0) ELSE a

\* ------------------------------------------------------------ tensors
Tensor(n, c, rows) == [n |-> n, c |-> c, rows |-> rows]

\* torch.full((n, c), v)
Full(n, c, v) == Tensor(n, c, [r \in 1..n |-> [j \in 1..c |-> v]])

\* mutant of Zeros: torch.ones(n, c)
Zeros_asOnes(n, c) == Full(n, c, Num(1))

\* torch.zeros(n, c)
Zeros(n, c) == Full(n, c, Num(0))

\* no tensor: the value of a name that was never bound
NoTensor == Tensor(0, 0, <<>>)

\* a call's outcome: a returned value or a raised exception
Return(v) == [ok |-> TRUE, val |-> v, err |-> "none"]
Raise(e) == [ok |-> FALSE, val |-> NoTensor, err |-> e]

\* ------------------------------------------------------------ indexing
\* an index k is accepted by a dimension of size n: Python and torch count
\* a negative index from the end
InRange(k, n) == -n <= k /\ k < n

Wrap(k, n) == IF k < 0 THEN k + n ELSE k

\* the index tensors of an edge list: edge_index[0] and edge_index[1]
Sources(ei) == ei[1]
Targets(ei) == ei[2]

\* the largest entry of an index tensor, -1 when it is empty
SeqMax(s) == IF Len(s) = 0 THEN -1 ELSE CHOOSE m \in {s[e] : e \in 1..Len(s)} :
                                           \A e \in 1..Len(s) : s[e] <= m

\* x[index] for an index tensor
IndexSelect(t, index) ==
    IF \E e \in 1..Len(index) : ~InRange(index[e], t.n)
    THEN Raise("IndexError")
    ELSE Return(Tensor(Len(index), t.c,
                       [e \in 1..Len(index) |-> t.rows[Wrap(index[e], t.n) + 1]]))

\* mutant of message_passing: the features of the target nodes are fetched
message_passing_fromTargets(x_, edge_index_) ==
    LET source_nodes == Targets(edge_index_)
    IN IndexSelect(x_, source_nodes)

message_passing(x_, edge_index_) ==
    LET source_nodes == Sources(edge_index_)
    IN IndexSelect(x_, source_nodes)

\* ------------------------------------------------------------ sum
\* mutant of RowAdd: the row is overwritten, not accumulated
RowAdd_asAssign(a, b) == b

RowAdd(a, b) == [j \in 1..Len(a) |-> Add(a[j], b[j])]

\* self after source rows 1..k were added at their index
RECURSIVE IndexAddUpTo(_, _, _, _)
IndexAddUpTo(self, index, source, k) ==
    IF k = 0 THEN self
    ELSE LET prev == IndexAddUpTo(self, index, source, k - 1)
         IN [prev EXCEPT !.rows[index[k] + 1] = RowAdd(@, source.rows[k])]

\* self.index_add_(0, index, source): an index outside [0, n) is refused
index_add_(self, index, source) ==
    IF \E e \in 1..Len(index) : index[e] < 0 \/ index[e] >= self.n
    THEN Raise("IndexError")
    ELSE Return(IndexAddUpTo(self, index, source, Len(index)))

\* mutant of aggregate_messages: the row count is taken from the largest
\* target index, not from num_nodes
aggregate_messages_sizedByTargets(messages_, edge_index_, num_nodes) ==
    LET target_nodes == Targets(edge_index_)
        zeros == Zeros(SeqMax(target_nodes) + 1, messages_.c)
    IN index_add_(zeros, target_nodes, messages_)

aggregate_messages(messages_, edge_index_, num_nodes) ==
    LET target_nodes == Targets(edge_index_)
        zeros == Zeros(num_nodes, messages_.c)
    IN index_add_(zeros, target_nodes, messages_)

\* ------------------------------------------------------------ mean
RECURSIVE CountOf(_, _, _)
CountOf(s, v, k) ==
    IF k = 0 THEN 0
    ELSE CountOf(s, v, k - 1) + (IF s[k] = v THEN 1 ELSE 0)

\* torch.bincount(input, minlength): entry v + 1 counts the occurrences of v
bincount(input, minlength) ==
    IF \E e \in 1..Len(input) : input[e] < 0
    THEN Raise("RuntimeError")
    ELSE LET size == IF SeqMax(input) + 1 > minlength THEN SeqMax(input) + 1
                     ELSE minlength
         IN Return([v \in 1..size |-> CountOf(input, v - 1, Len(input))])

\* mutant of clamp: the lower bound is not applied
clamp_asIdentity(s, lo) == s

\* .clamp(min=lo)
clamp(s, lo) == [v \in 1..Len(s) |-> IF s[v] < lo THEN lo ELSE s[v]]

\* mutant of mean_counts: every node is divided by the number of edges
mean_counts_asEdgeTotal(target_nodes, num_nodes) ==
    LET b == bincount(target_nodes, num_nodes)
    IN IF b.ok
       THEN Return([v \in 1..Len(b.val) |->
                       IF Len(target_nodes) < 1 THEN 1 ELSE Len(target_nodes)])
       ELSE b

\* the divisors of aggregate_mean: bincount(...).clamp(min=1)
mean_counts(target_nodes, num_nodes) ==
    LET b == bincount(target_nodes, num_nodes)
    IN IF b.ok THEN Return(clamp(b.val, 1)) ELSE b

\* aggregated / counts, counts being a column broadcast over the row
DivByCounts(agg, cnt) ==
    IF Len(cnt) # agg.n /\ Len(cnt) # 1 /\ agg.n # 1
    THEN Raise("RuntimeError")
    ELSE Return([agg EXCEPT !.rows =
                    [r \in 1..agg.n |->
                        [j \in 1..agg.c |->
                            DivNum(agg.rows[r][j],
                                   Num(IF Len(cnt) = 1 THEN cnt[1] ELSE cnt[r]))]]])

aggregate_mean(messages_, edge_index_, num_nodes) ==
    LET target_nodes == Targets(edge_index_)
        zeros == Zeros(num_nodes, messages_.c)
        cnt == mean_counts(target_nodes, num_nodes)
        added == index_add_(zeros, target_nodes, messages_)
    IN IF ~cnt.ok THEN Raise(cnt.err)
       ELSE IF ~added.ok THEN added
       ELSE DivByCounts(added.val, cnt.val)

\* ------------------------------------------------------------ max
\* mutant of RowMax: the row with the larger first component is kept whole
RowMax_asWholeRow(a, b) == IF Leq(a[1], b[1]) THEN b ELSE a

\* mutant of RowMax: the later message replaces the row
RowMax_asLast(a, b) == b

\* torch.max(a, b) of two rows
RowMax(a, b) == [j \in 1..Len(a) |-> MaxNum(a[j], b[j])]

\* mutant of MaxInit: the matrix starts at zero
MaxInit_asZeros(num_nodes, cols) == Full(num_nodes, cols, Num(0))

\* torch.full((num_nodes, messages.size(1)), float('-inf'))
MaxInit(num_nodes, cols) == Full(num_nodes, cols, NegInf)

\* mutant of MaxAssign: the message is taken into every row
MaxAssign_asAllRows(agg, idx, row) ==
    [agg EXCEPT !.rows = [r \in 1..agg.n |-> RowMax(agg.rows[r], row)]]

\* aggregated[idx] = torch.max(aggregated[idx].clone(), messages[i])
MaxAssign(agg, idx, row) ==
    [agg EXCEPT !.rows[Wrap(idx, agg.n) + 1] = RowMax(@, row)]

\* aggregated after the first k iterations of aggregate_max's loop
RECURSIVE MaxLoopUpTo(_, _, _, _)
MaxLoopUpTo(agg, target_nodes, messages_, k) ==
    IF k = 0 THEN Return(agg)
    ELSE LET prev == MaxLoopUpTo(agg, target_nodes, messages_, k - 1)
         IN IF ~prev.ok THEN prev
            ELSE IF ~InRange(target_nodes[k], prev.val.n) THEN Raise("IndexError")
            ELSE Return(MaxAssign(prev.val, target_nodes[k], messages_.rows[k]))

aggregate_max(messages_, edge_index_, num_nodes) ==
    LET target_nodes == Targets(edge_index_)
    IN MaxLoopUpTo(MaxInit(num_nodes, messages_.c), target_nodes, messages_, messages_.n)

\* ------------------------------------------------------------ layer
\* mutant of update_nodes: the aggregated messages are left out
update_nodes_asIdentity(x_, aggregated_) == Return(x_)

\* mutant of update_nodes: the node's own features are left out
update_nodes_asAggregatedOnly(x_, aggregated_) == Return(aggregated_)

\* mutant of update_nodes: a negative infinity of aggregated counts as 0
update_nodes_asGuarded(x_, aggregated_) ==
    Return(Tensor(x_.n, x_.c,
                  [r \in 1..x_.n |->
                      [j \in 1..x_.c |->
                          IF aggregated_.rows[r][j] = NegInf THEN x_.rows[r][j]
                          ELSE Add(x_.rows[r][j], aggregated_.rows[r][j])]]))

\* x + aggregated (both N x C in every call the layers make)
update_nodes(x_, aggregated_) ==
    IF x_.n # aggregated_.n \/ x_.c # aggregated_.c
    THEN Raise("RuntimeError")
    ELSE Return(Tensor(x_.n, x_.c,
                       [r \in 1..x_.n |-> RowAdd(x_.rows[r], aggregated_.rows[r])]))

\* a[1] * w[1] + ... + a[k] * w[k]
RECURSIVE DotUpTo(_, _, _)
DotUpTo(a, w, k) ==
    IF k = 0 THEN Num(0)
    ELSE Add(DotUpTo(a, w, k - 1), Mul(a[k], Num(w[k])))

\* mutant of Linear: columns beyond the shorter of the two widths are ignored
Linear_asTruncating(lin, t) ==
    LET w == IF t.c < lin.in THEN t.c ELSE lin.in
    IN Return(Tensor(t.n, lin.out,
                     [r \in 1..t.n |->
                         [o \in 1..lin.out |->
                             Add(DotUpTo(t.rows[r], lin.W[o], w), Num(lin.b[o]))]]))

\* nn.Linear(in_channels, out_channels) applied to t: t @ W^T + b, refused
\* when t has not in_channels columns
Linear(lin, t) ==
    IF t.c # lin.in
    THEN Raise("RuntimeError")
    ELSE Return(Tensor(t.n, lin.out,
                       [r \in 1..t.n |->
                           [o \in 1..lin.out |->
                               Add(DotUpTo(t.rows[r], lin.W[o], lin.in), Num(lin.b[o]))]]))

\* mutant of Relu: the rows come out in reverse order
Relu_asRowReversed(t) ==
    Tensor(t.n, t.c, [r \in 1..t.n |-> [j \in 1..t.c |-> ReluNum(t.rows[t.n + 1 - r][j])]])

\* F.relu(out)
Relu(t) == Tensor(t.n, t.c, [r \in 1..t.n |-> [j \in 1..t.c |-> ReluNum(t.rows[r][j])]])

\* ------------------------------------------------------------ kernel calls
\* the notebook's graph (Q5, Q6)
NotebookX ==
    Tensor(4, 2, << <<Num(1), Num(0)>>, <<Num(0), Num(1)>>,
                    <<Num(1), Num(1)>>, <<Num(0), Num(0)>> >>)

NotebookEdgeIndex ==
    << <<0, 0, 1, 1, 1, 2, 2, 3, 3>>,
       <<1, 2, 0, 2, 3, 0, 3, 1, 2>> >>

\* the indices tried on a graph of n nodes where an edge list may be invalid:
\* the valid ones, -1 and n
IndexRange(n) == -1..n

\* the feature matrices of the bounded graphs
FeatureMatrices ==
    UNION {{Tensor(n, c, rows) : rows \in [1..n -> [1..c -> {Num(v) : v \in Vals}]]} :
              <<n, c>> \in (0..MaxNodes) \X (1..FeatDim)}

\* the locals of a forward call before its first statement
CallStart ==
    /\ pc = "call"
    /\ op = "none"
    /\ messages = NoTensor
    /\ counts = <<>>
    /\ i = 0
    /\ aggregated = NoTensor
    /\ err = "none"

\* no layer around the kernel calls: nothing of a layer is bound
NoLinear == [in |-> 0, out |-> 0, W |-> <<>>, b |-> <<>>]
Ops == {"sum", "mean", "max"}
NoEntry == [done |-> FALSE, messages |-> NoTensor, aggregated |-> NoTensor,
            updated |-> NoTensor, projected |-> NoTensor, out |-> NoTensor]
LayerStart ==
    /\ updated = NoTensor
    /\ projected = NoTensor
    /\ out = NoTensor
    /\ log = [o \in Ops |-> NoEntry]

\* no model around the layer: nothing of a model is bound
NoModel == [kind |-> "none"]
NoData == [x |-> NoTensor, edge_index |-> <<<<>>, <<>>>>]
NoResult == [fn |-> "none", val |-> <<>>]
NoModelRun ==
    /\ model = NoModel
    /\ optimizer = [step |-> 0]
    /\ fn = "none"
    /\ mpc = "idle"
    /\ data = NoData
    /\ layer = 0
    /\ feat = NoTensor
    /\ layer_out = NoTensor
    /\ result = NoResult

\* ---- the other notebooks, idle
\* the names the TorchScript notebook binds modules to, and the files it writes
ModuleNames == {"model", "cf_model", "traced_model", "scripted_cf_model",
                "loaded_traced", "loaded_scripted"}
OutputNames == {"original_output", "scripted_output", "original_out", "loaded_out"}
FileNames == {"traced_mnist_model.pt", "scripted_cf_model.pt"}
NoModule == [kind |-> "none", cls |-> "none", graph |-> <<>>, params |-> <<>>, training |-> TRUE]
NoFile == [written |-> FALSE, original_name |-> "none", code |-> <<>>, tensors |-> <<>>,
           training |-> TRUE]
NoOutput == [ran |-> FALSE, arg |-> NoTensor, ok |-> FALSE, val |-> NoTensor, err |-> "none"]
NoExport ==
    /\ modules = [n \in ModuleNames |-> NoModule]
    /\ files = [f \in FileNames |-> NoFile]
    /\ outs = [n \in OutputNames |-> NoOutput]

\* a JSON value: t is "null", "bool", "num", "str", "list" or "obj"; an object
\* holds in items the value under 'features', if it has one
JNull == [t |-> "null", n |-> 0, s |-> "", items |-> <<>>]
JBool(b) == [t |-> "bool", n |-> IF b THEN 1 ELSE 0, s |-> "", items |-> <<>>]
JNum(k) == [t |-> "num", n |-> k, s |-> "", items |-> <<>>]
JStr(str) == [t |-> "str", n |-> 0, s |-> str, items |-> <<>>]
JList(seq) == [t |-> "list", n |-> 0, s |-> "", items |-> seq]
JObj(seq) == [t |-> "obj", n |-> 0, s |-> "", items |-> seq]
\* a body that is not JSON, and no request at all
Malformed == [t |-> "bad", n |-> 0, s |-> "", items |-> <<>>]
NoRequest == [t |-> "none", n |-> 0, s |-> "", items |-> <<>>]
\* softmax(logits) is kept as the logits it is taken of
NoProbabilities == [of |-> "none", logits |-> <<>>]
NoBody == [error |-> "none", got |-> 0, class |-> 0, probabilities |-> NoProbabilities]
NoResponse == [status |-> 0, body |-> NoBody]
NoApp ==
    /\ model_file = [exists |-> FALSE, state_dict |-> NoLinear]
    /\ app = "stopped"
    /\ app_model = NoLinear
    /\ request = NoRequest
    /\ response = NoResponse

NoGan ==
    /\ net = "none"
    /\ arg = <<>>
    /\ pos = 0
    /\ shape = <<>>
    /\ fake_images = <<>>
    /\ gan_err = "none"

\* no layer and no model running, for the runs of the other notebooks
NoGraphRun ==
    /\ x = NoTensor
    /\ edge_index = NoData.edge_index
    /\ pc = "none"
    /\ op = "none"
    /\ messages = NoTensor
    /\ counts = <<>>
    /\ i = 0
    /\ aggregated = NoTensor
    /\ err = "none"
    /\ linear = NoLinear
    /\ LayerStart
    /\ NoModelRun

\* the notebook's graph, or a bounded graph with a valid edge list
Init ==
    /\ \/ /\ x = NotebookX
          /\ edge_index = NotebookEdgeIndex
       \/ \E m \in FeatureMatrices, e \in 0..MaxEdges :
            \E src \in [1..e -> 0..(m.n - 1)], tgt \in [1..e -> 0..(m.n - 1)] :
                /\ x = m
                /\ edge_index = <<src, tgt>>
    /\ CallStart
    /\ linear = NoLinear
    /\ LayerStart
    /\ NoModelRun
    /\ NoExport /\ NoApp /\ NoGan

\* a bounded graph whose edge list may hold indices outside [0, N)
InitAnyIndex ==
    /\ \E m \in FeatureMatrices, e \in 0..MaxEdges :
          \E src \in [1..e -> IndexRange(m.n)], tgt \in [1..e -> IndexRange(m.n)] :
              /\ x = m
              /\ edge_index = <<src, tgt>>
    /\ CallStart
    /\ linear = NoLinear
    /\ LayerStart
    /\ NoModelRun
    /\ NoExport /\ NoApp /\ NoGan

\* messages = message_passing(x, edge_index)
Gather ==
    /\ pc = "call"
    /\ LET r == message_passing(x, edge_index)
       IN /\ messages' = r.val
          /\ err' = r.err
          /\ pc' = IF r.ok THEN "gathered" ELSE "error"
    /\ UNCHANGED <<x, edge_index, op, counts, i, aggregated, layerVars, modelVars>>
    /\ UNCHANGED restVars

\* aggregated = aggregate_messages(messages, edge_index, x.size(0))
AggregateSum ==
    /\ pc = "gathered"
    /\ LET r == aggregate_messages(messages, edge_index, x.n)
       IN /\ aggregated' = r.val
          /\ err' = r.err
          /\ pc' = IF r.ok THEN "aggregated" ELSE "error"
    /\ op' = "sum"
    /\ UNCHANGED <<x, edge_index, messages, counts, i, layerVars, modelVars>>
    /\ UNCHANGED restVars

\* aggregated = aggregate_mean(messages, edge_index, x.size(0))
AggregateMean ==
    /\ pc = "gathered"
    /\ LET r == aggregate_mean(messages, edge_index, x.n)
           cnt == mean_counts(Targets(edge_index), x.n)
       IN /\ aggregated' = r.val
          /\ counts' = IF cnt.ok THEN cnt.val ELSE <<>>
          /\ err' = r.err
          /\ pc' = IF r.ok THEN "aggregated" ELSE "error"
    /\ op' = "mean"
    /\ UNCHANGED <<x, edge_index, messages, i, layerVars, modelVars>>
    /\ UNCHANGED restVars

\* aggregate_max, up to its loop
AggregateMaxBegin ==
    /\ pc = "gathered"
    /\ aggregated' = MaxInit(x.n, messages.c)
    /\ i' = 0
    /\ op' = "max"
    /\ pc' = "max_loop"
    /\ UNCHANGED <<x, edge_index, messages, counts, err, layerVars, modelVars>>
    /\ UNCHANGED restVars

\* one iteration of aggregate_max's loop
AggregateMaxStep ==
    /\ pc = "max_loop"
    /\ i < messages.n
    /\ LET target_nodes == Targets(edge_index)
           idx == target_nodes[i + 1]
       IN IF InRange(idx, aggregated.n)
          THEN /\ aggregated' = MaxAssign(aggregated, idx, messages.rows[i + 1])
               /\ i' = i + 1
               /\ UNCHANGED <<pc, err>>
          ELSE /\ aggregated' = NoTensor
               /\ err' = "IndexError"
               /\ pc' = "error"
               /\ UNCHANGED i
    /\ UNCHANGED <<x, edge_index, op, messages, counts, layerVars, modelVars>>
    /\ UNCHANGED restVars

\* return aggregated
AggregateMaxReturn ==
    /\ pc = "max_loop"
    /\ i = messages.n
    /\ pc' = "aggregated"
    /\ UNCHANGED <<x, edge_index, op, messages, counts, i, aggregated, err, layerVars, modelVars>>
    /\ UNCHANGED restVars

Next ==
    \/ Gather
    \/ AggregateSum
    \/ AggregateMean
    \/ AggregateMaxBegin
    \/ AggregateMaxStep
    \/ AggregateMaxReturn

Spec == Init /\ [][Next]_vars

SpecAnyIndex == InitAnyIndex /\ [][Next]_vars

\* ------------------------------------------------------------ layer calls
\* GraphConv, GraphConvMean and GraphConvMax differ in the aggregation
\* operator only; op names the class of the layer whose forward is running.

\* feature rows of the graphs the layers are run on
FeaturePattern == << <<1, -1>>, <<-1, 1>>, <<1, 1>>, <<-1, -1>> >>
PatternX(n) ==
    Tensor(n, FeatDim,
           [r \in 1..n |-> [j \in 1..FeatDim |-> Num(FeaturePattern[((r - 1) % 4) + 1][j])]])

\* the settings of self.linear tried: in_channels inputs, one or two outputs
LinearChoices(in_channels) ==
    { [in |-> in_channels, out |-> 1,
       W |-> << [j \in 1..in_channels |-> 1] >>, b |-> <<0>>],
      [in |-> in_channels, out |-> 2,
       W |-> << [j \in 1..in_channels |-> IF j = 1 THEN 1 ELSE -1],
                [j \in 1..in_channels |-> -1] >>, b |-> <<-1, 1>>] }

\* a layer on a bounded graph with a valid edge list
InitLayer ==
    /\ \E n \in 0..MaxNodes, e \in 0..MaxEdges :
          \E src \in [1..e -> 0..(n - 1)], tgt \in [1..e -> 0..(n - 1)] :
              /\ x = PatternX(n)
              /\ edge_index = <<src, tgt>>
    /\ linear \in LinearChoices(FeatDim)
    /\ CallStart
    /\ LayerStart
    /\ NoModelRun
    /\ NoExport /\ NoApp /\ NoGan

\* a layer on a bounded graph whose edge list may hold indices outside [0, N)
InitLayerAnyIndex ==
    /\ \E n \in 0..MaxNodes, e \in 0..MaxEdges :
          \E src \in [1..e -> IndexRange(n)], tgt \in [1..e -> IndexRange(n)] :
              /\ x = PatternX(n)
              /\ edge_index = <<src, tgt>>
    /\ linear \in LinearChoices(FeatDim)
    /\ CallStart
    /\ LayerStart
    /\ NoModelRun
    /\ NoExport /\ NoApp /\ NoGan

\* mutant of update_nodes_leaves: x += aggregated, in place
update_nodes_leaves_asInPlace(x_, aggregated_) ==
    IF update_nodes(x_, aggregated_).ok THEN update_nodes(x_, aggregated_).val ELSE x_

\* the tensor passed as x after update_nodes ran: x + aggregated allocates
\* its result and leaves x as it was
update_nodes_leaves(x_, aggregated_) == x_

\* updated = update_nodes(x, aggregated)
UpdateNodes ==
    /\ pc = "aggregated"
    /\ LET r == update_nodes(x, aggregated)
       IN /\ updated' = r.val
          /\ err' = r.err
          /\ pc' = IF r.ok THEN "updated" ELSE "error"
    /\ x' = update_nodes_leaves(x, aggregated)
    /\ UNCHANGED <<edge_index, op, messages, counts, i, aggregated>>
    /\ UNCHANGED <<linear, projected, out, log>>
    /\ UNCHANGED modelVars
    /\ UNCHANGED restVars

\* out = self.linear(updated)
Project ==
    /\ pc = "updated"
    /\ LET r == Linear(linear, updated)
       IN /\ projected' = r.val
          /\ err' = r.err
          /\ pc' = IF r.ok THEN "projected" ELSE "error"
    /\ UNCHANGED <<x, edge_index, op, messages, counts, i, aggregated>>
    /\ UNCHANGED <<linear, updated, out, log>>
    /\ UNCHANGED modelVars
    /\ UNCHANGED restVars

\* return F.relu(out)
Activate ==
    /\ pc = "projected"
    /\ out' = Relu(projected)
    /\ pc' = "returned"
    /\ UNCHANGED <<x, edge_index, op, messages, counts, i, aggregated, err>>
    /\ UNCHANGED <<linear, updated, projected, log>>
    /\ UNCHANGED modelVars
    /\ UNCHANGED restVars

\* the forward call is over and its locals are gone; the caller keeps what a
\* returned call gave (log) and calls a layer again on the same x, edge_index
NewCall ==
    /\ pc \in {"returned", "error"}
    /\ log' = IF pc = "returned"
              THEN [log EXCEPT ![op] =
                       [done |-> TRUE, messages |-> messages, aggregated |-> aggregated,
                        updated |-> updated, projected |-> projected, out |-> out]]
              ELSE log
    /\ pc' = "call"
    /\ op' = "none"
    /\ messages' = NoTensor
    /\ counts' = <<>>
    /\ i' = 0
    /\ aggregated' = NoTensor
    /\ err' = "none"
    /\ updated' = NoTensor
    /\ projected' = NoTensor
    /\ out' = NoTensor
    /\ UNCHANGED <<x, edge_index, linear>>
    /\ UNCHANGED modelVars
    /\ UNCHANGED restVars

NextLayer ==
    \/ Gather
    \/ AggregateSum
    \/ AggregateMean
    \/ AggregateMaxBegin
    \/ AggregateMaxStep
    \/ AggregateMaxReturn
    \/ UpdateNodes
    \/ Project
    \/ Activate
    \/ NewCall

SpecLayer == InitLayer /\ [][NextLayer]_vars

SpecLayerAnyIndex == InitLayerAnyIndex /\ [][NextLayer]_vars

\* ------------------------------------------------------------ edge order
\* features that float32 cannot add exactly: 2^24, 1 and -2^24 in column 1
OrderX ==
    Tensor(3, FeatDim,
           [r \in 1..3 |->
               [j \in 1..FeatDim |->
                   IF j > 1 THEN Num(FeaturePattern[r][j])
                   ELSE IF r = 1 THEN Num(2 ^ Significand)
                   ELSE IF r = 2 THEN Num(1)
                   ELSE Num(-(2 ^ Significand))]])

\* three nodes with large or with small features, and a valid edge list of
\* up to MaxEdges + 1 edges (the order of additions shows from three on)
InitOrder ==
    /\ x \in {OrderX, PatternX(3)}
    /\ \E e \in 0..(MaxEdges + 1) :
          \E src \in [1..e -> 0..2], tgt \in [1..e -> 0..2] :
              edge_index = <<src, tgt>>
    /\ CallStart
    /\ linear = NoLinear
    /\ LayerStart
    /\ NoModelRun
    /\ NoExport /\ NoApp /\ NoGan

SpecOrder == InitOrder /\ [][Next]_vars

\* ------------------------------------------------------------ models
\* SimpleGNN, DeeperGNN, GNNWithAggregation and TuningGNN, and the functions
\* train, evaluate and infer that run them.

\* optimizer.step() calls, and training batches seen by bn1, of one model
MaxSteps == 2

\* the values of the learned parameters tried (a model starts from random
\* weights, and optimizer.step() moves them)
Settings == {1, 2}

\* weight and bias of nn.Linear(in_channels, out_channels) under setting s
Parameters(s, in_channels, out_channels) ==
    [in |-> in_channels, out |-> out_channels,
     W |-> [o \in 1..out_channels |->
              [j \in 1..in_channels |->
                  IF s = 1 THEN 1
                  ELSE IF o % 2 = 1 THEN (IF j = 1 THEN 2 ELSE -1)
                  ELSE (IF j = 1 THEN -1 ELSE 1)]],
     b |-> [o \in 1..out_channels |-> IF s = 1 THEN 1 ELSE IF o % 2 = 1 THEN -1 ELSE 1]]

\* weight and bias of bn1 under setting s
BnAffine(s) == IF s = 1 THEN [weight |-> 1, bias |-> 0] ELSE [weight |-> 2, bias |-> 1]

\* nn.BatchNorm1d(num_features) as constructed
BatchNorm1d(num_features) ==
    [num_features |-> num_features,
     running_mean |-> [j \in 1..num_features |-> Num(0)],
     running_var |-> [j \in 1..num_features |-> Num(1)],
     num_batches_tracked |-> 0]
NoBn == BatchNorm1d(0)

\* the layers of a model as its __init__ builds them
Conv(in_channels, out_channels) == [in |-> in_channels, out |-> out_channels]

SimpleGNN(in_channels, hidden_channels, out_channels) ==
    [kind |-> "SimpleGNN", conv_op |-> "sum",
     conv |-> <<Conv(in_channels, hidden_channels), Conv(hidden_channels, out_channels)>>,
     bn1 |-> BatchNorm1d(hidden_channels), dropout_p |-> <<1, 2>>, training |-> TRUE, theta |-> 1]

DeeperGNN(in_channels, hidden_channels, out_channels) ==
    [kind |-> "DeeperGNN", conv_op |-> "sum",
     conv |-> <<Conv(in_channels, hidden_channels),
                Conv(hidden_channels, hidden_channels),
                Conv(hidden_channels, out_channels)>>,
     bn1 |-> NoBn, dropout_p |-> Num(0), training |-> TRUE, theta |-> 1]

GNNWithAggregation(conv_layer_class, in_channels, hidden_channels, out_channels) ==
    [kind |-> "GNNWithAggregation", conv_op |-> conv_layer_class,
     conv |-> <<Conv(in_channels, hidden_channels), Conv(hidden_channels, out_channels)>>,
     bn1 |-> NoBn, dropout_p |-> Num(0), training |-> TRUE, theta |-> 1]

TuningGNN(in_channels, hidden_channels, out_channels, dropout_p) ==
    [kind |-> "TuningGNN", conv_op |-> "sum",
     conv |-> <<Conv(in_channels, hidden_channels), Conv(hidden_channels, out_channels)>>,
     bn1 |-> BatchNorm1d(hidden_channels), dropout_p |-> dropout_p, training |-> TRUE, theta |-> 1]

HasBn(m) == m.kind \in {"SimpleGNN", "TuningGNN"}

\* (in_channels, hidden_channels, out_channels) of the models built; the data
\* has FeatDim columns, so the last one is a model that does not fit its data
ModelDims == {<<FeatDim, 1, 2>>, <<FeatDim, 2, 1>>, <<1, 1, 1>>}

\* the dropout probabilities tried for TuningGNN: 0.2 and 0.8
DropoutPs == {<<1, 5>>, <<4, 5>>}

Models ==
    UNION {{SimpleGNN(d[1], d[2], d[3]), DeeperGNN(d[1], d[2], d[3]),
            GNNWithAggregation("mean", d[1], d[2], d[3]),
            GNNWithAggregation("max", d[1], d[2], d[3])}
           \cup {TuningGNN(d[1], d[2], d[3], p) : p \in DropoutPs} : d \in ModelDims}

\* the graphs the functions are called on: one node with a self-loop, two
\* nodes with node 0 isolated, two nodes with an edge each way
ModelGraphs ==
    {[x |-> PatternX(1), edge_index |-> << <<0>>, <<0>> >>],
     [x |-> PatternX(2), edge_index |-> << <<0>>, <<1>> >>],
     [x |-> PatternX(2), edge_index |-> << <<0, 1>>, <<1, 0>> >>]}

\* ---- bn1
\* sum of column j over the first r rows
RECURSIVE ColSumUpTo(_, _, _)
ColSumUpTo(t, j, r) ==
    IF r = 0 THEN Num(0) ELSE Add(ColSumUpTo(t, j, r - 1), t.rows[r][j])

Sub(a, b) == Add(a, Mul(Num(-1), b))

ColMean(t, j) == DivNum(ColSumUpTo(t, j, t.n), Num(t.n))

\* the biased variance of column j
ColVar(t, j) ==
    LET sq == Tensor(t.n, t.c,
                     [r \in 1..t.n |->
                         [c \in 1..t.c |->
                             LET dv == Sub(t.rows[r][c], ColMean(t, c))
                             IN Mul(dv, dv)]])
    IN DivNum(ColSumUpTo(sq, j, t.n), Num(t.n))

\* 1 / sqrt(v + eps) for a finite v >= 0, rounded down to a multiple of
\* 1/InvStdGrid; eps = 1e-5 counts only where v is 0
InvStdGrid == 2
InvStdCap == 316 * InvStdGrid
InvStd(v) ==
    IF v[1] = 0 THEN Num(316)
    ELSE LET q == (InvStdGrid * InvStdGrid * v[2]) \div v[1]
             s == CHOOSE s \in 0..InvStdCap :
                      /\ s * s <= q
                      /\ (s = InvStdCap \/ (s + 1) * (s + 1) > q)
         IN Norm(s, InvStdGrid)

\* (t - mean) * invstd * weight + bias, column by column
Normalize(t, mean, var, affine) ==
    Tensor(t.n, t.c,
           [r \in 1..t.n |->
               [j \in 1..t.c |->
                   Add(Mul(Mul(Sub(t.rows[r][j], mean[j]), InvStd(var[j])),
                           Num(affine.weight)),
                       Num(affine.bias))]])

\* exponential moving average with momentum 0.1
Momentum(old, new) == Add(Mul(<<9, 10>>, old), Mul(<<1, 10>>, new))

\* mutant of bn_buffers: the running statistics are tracked in evaluation too
bn_buffers_asAlwaysTracking(bn, t, training) ==
    [bn EXCEPT
        !.num_batches_tracked = @ + 1,
        !.running_mean = IF t.n > 1
                         THEN [j \in 1..t.c |-> Momentum(bn.running_mean[j], ColMean(t, j))]
                         ELSE @,
        !.running_var = IF t.n > 1
                        THEN [j \in 1..t.c |->
                                 Momentum(bn.running_var[j],
                                          Mul(ColVar(t, j), Norm(t.n, t.n - 1)))]
                        ELSE @]

\* bn1's buffers after self.bn1(t): in training num_batches_tracked is
\* counted before the batch is looked at, and a batch of more than one row
\* moves the running statistics (the variance unbiased)
bn_buffers(bn, t, training) ==
    IF ~training THEN bn
    ELSE [bn EXCEPT
            !.num_batches_tracked = @ + 1,
            !.running_mean = IF t.n > 1
                             THEN [j \in 1..t.c |-> Momentum(bn.running_mean[j], ColMean(t, j))]
                             ELSE @,
            !.running_var = IF t.n > 1
                            THEN [j \in 1..t.c |->
                                     Momentum(bn.running_var[j],
                                              Mul(ColVar(t, j), Norm(t.n, t.n - 1)))]
                            ELSE @]

\* mutant of batch_norm: the running statistics are used in training too
batch_norm_asRunningStats(bn, affine, t, training) ==
    Return(Normalize(t, bn.running_mean, bn.running_var, affine))

\* the value of self.bn1(t): in training the batch statistics over all rows
\* (one row only is refused), in evaluation the running statistics
batch_norm(bn, affine, t, training) ==
    IF training
    THEN IF t.n = 1 THEN Raise("ValueError")
         ELSE Return(Normalize(t, [j \in 1..t.c |-> ColMean(t, j)],
                               [j \in 1..t.c |-> ColVar(t, j)], affine))
    ELSE Return(Normalize(t, bn.running_mean, bn.running_var, affine))

\* ---- dropout
\* the keep masks F.dropout may draw for t
Masks(t) == [1..t.n -> [1..t.c -> BOOLEAN]]

\* F.dropout(t, p, training) with the mask drawn: kept elements are scaled
\* by 1 / (1 - p), the others are 0
dropout(t, p, training, mask) ==
    IF ~training THEN t
    ELSE Tensor(t.n, t.c,
                [r \in 1..t.n |->
                    [j \in 1..t.c |->
                        IF mask[r][j] THEN DivNum(t.rows[r][j], Sub(Num(1), p))
                        ELSE Num(0)]])

\* ---- forward
\* mutant of layer_features: every layer is given the caller's matrix
layer_features_asCallerX(feat_, data_) == data_.x

\* the features a layer of the model is called on: the local x of forward
layer_features(feat_, data_) == feat_

\* the locals of a layer are gone
NoFrame ==
    /\ pc' = "none"
    /\ op' = "none"
    /\ messages' = NoTensor
    /\ counts' = <<>>
    /\ i' = 0
    /\ aggregated' = NoTensor
    /\ updated' = NoTensor
    /\ projected' = NoTensor
    /\ out' = NoTensor

\* a model as built and possibly trained before, and no function running
InitModel ==
    /\ \E m \in Models, s \in Settings : model = [m EXCEPT !.theta = s]
    /\ optimizer = [step |-> 0]
    /\ fn = "none"
    /\ mpc = "idle"
    /\ data = NoData
    /\ layer = 0
    /\ feat = NoTensor
    /\ layer_out = NoTensor
    /\ result = NoResult
    /\ x = NoTensor
    /\ edge_index = NoData.edge_index
    /\ pc = "none"
    /\ op = "none"
    /\ messages = NoTensor
    /\ counts = <<>>
    /\ i = 0
    /\ aggregated = NoTensor
    /\ err = "none"
    /\ linear = NoLinear
    /\ LayerStart
    /\ NoExport /\ NoApp /\ NoGan

\* train(model, data, labels, optimizer, criterion) is called
Train ==
    /\ mpc = "idle"
    /\ optimizer.step < MaxSteps
    /\ model.bn1.num_batches_tracked < MaxSteps
    /\ \E g \in ModelGraphs : data' = g
    /\ fn' = "train"
    /\ mpc' = "mode"
    /\ result' = NoResult
    /\ UNCHANGED <<kernelVars, layerVars, model, optimizer, layer, feat, layer_out>>
    /\ UNCHANGED restVars

\* evaluate(model, data, labels) is called
Evaluate ==
    /\ mpc = "idle"
    /\ \E g \in ModelGraphs : data' = g
    /\ fn' = "evaluate"
    /\ mpc' = "mode"
    /\ result' = NoResult
    /\ UNCHANGED <<kernelVars, layerVars, model, optimizer, layer, feat, layer_out>>
    /\ UNCHANGED restVars

\* infer(model, data) is called
Infer ==
    /\ mpc = "idle"
    /\ \E g \in ModelGraphs : data' = g
    /\ fn' = "infer"
    /\ mpc' = "mode"
    /\ result' = NoResult
    /\ UNCHANGED <<kernelVars, layerVars, model, optimizer, layer, feat, layer_out>>
    /\ UNCHANGED restVars

\* mutant of SetMode: evaluate and infer leave the mode as it is
SetMode_asTrainOnly ==
    /\ mpc = "mode"
    /\ model' = [model EXCEPT !.training = IF fn = "train" THEN TRUE ELSE @]
    /\ mpc' = "forward"
    /\ UNCHANGED <<kernelVars, layerVars, optimizer, fn, data, layer, feat, layer_out, result>>
    /\ UNCHANGED restVars

\* model.train() in train (followed by optimizer.zero_grad(), gradients not
\* being modelled), model.eval() in evaluate and infer
SetMode ==
    /\ mpc = "mode"
    /\ model' = [model EXCEPT !.training = (fn = "train")]
    /\ mpc' = "forward"
    /\ UNCHANGED <<kernelVars, layerVars, optimizer, fn, data, layer, feat, layer_out, result>>
    /\ UNCHANGED restVars

\* model(data.x, data.edge_index): forward is entered
Forward ==
    /\ mpc = "forward"
    /\ feat' = data.x
    /\ layer' = 0
    /\ layer_out' = NoTensor
    /\ mpc' = "next"
    /\ UNCHANGED <<kernelVars, layerVars, model, optimizer, fn, data, result>>
    /\ UNCHANGED restVars

\* x = self.conv<layer + 1>(x, edge_index): the layer's forward is entered
LayerCall ==
    /\ mpc = "next"
    /\ layer' = layer + 1
    /\ x' = layer_features(feat, data)
    /\ edge_index' = data.edge_index
    /\ linear' = Parameters(model.theta, model.conv[layer + 1].in, model.conv[layer + 1].out)
    /\ pc' = "call"
    /\ mpc' = "conv"
    /\ UNCHANGED <<op, messages, counts, i, aggregated, err, updated, projected, out, log>>
    /\ UNCHANGED <<model, optimizer, fn, data, feat, layer_out, result>>
    /\ UNCHANGED restVars

\* the aggregation step of the layer's class
LayerAggregate ==
    /\ mpc = "conv"
    /\ \/ model.conv_op = "sum" /\ AggregateSum
       \/ model.conv_op = "mean" /\ AggregateMean
       \/ model.conv_op = "max" /\ AggregateMaxBegin
    /\ UNCHANGED restVars

\* the layer returned: its output is bound to forward's x
LayerReturn ==
    /\ mpc = "conv"
    /\ pc = "returned"
    /\ layer_out' = out
    /\ feat' = out
    /\ mpc' = IF layer = Len(model.conv) THEN "forwarded"
              ELSE IF HasBn(model) /\ layer = 1 THEN "bn"
              ELSE "next"
    /\ NoFrame
    /\ UNCHANGED <<x, edge_index, err, linear, log>>
    /\ UNCHANGED <<model, optimizer, fn, data, layer, result>>
    /\ UNCHANGED restVars

\* the layer raised: the exception leaves forward and the function
LayerRaise ==
    /\ mpc = "conv"
    /\ pc = "error"
    /\ mpc' = "raised"
    /\ NoFrame
    /\ UNCHANGED <<x, edge_index, err, linear, log>>
    /\ UNCHANGED <<model, optimizer, fn, data, layer, feat, layer_out, result>>
    /\ UNCHANGED restVars

\* x = self.bn1(x)
BatchNorm ==
    /\ mpc = "bn"
    /\ LET r == batch_norm(model.bn1, BnAffine(model.theta), feat, model.training)
       IN /\ feat' = IF r.ok THEN r.val ELSE feat
          /\ err' = r.err
          /\ mpc' = IF r.ok THEN "dropout" ELSE "raised"
    /\ model' = [model EXCEPT !.bn1 = bn_buffers(model.bn1, feat, model.training)]
    /\ UNCHANGED <<x, edge_index, pc, op, messages, counts, i, aggregated, layerVars>>
    /\ UNCHANGED <<optimizer, fn, data, layer, layer_out, result>>
    /\ UNCHANGED restVars

\* x = F.dropout(x, p=self.dropout_p, training=self.training)
Dropout ==
    /\ mpc = "dropout"
    /\ \E mask \in (IF model.training THEN Masks(feat) ELSE {<<>>}) :
          feat' = dropout(feat, model.dropout_p, model.training, mask)
    /\ mpc' = "next"
    /\ UNCHANGED <<kernelVars, layerVars, model, optimizer, fn, data, layer, layer_out, result>>
    /\ UNCHANGED restVars

\* loss = criterion(out, labels); loss.backward()
Backward ==
    /\ mpc = "forwarded"
    /\ fn = "train"
    /\ mpc' = "step"
    /\ UNCHANGED <<kernelVars, layerVars, model, optimizer, fn, data, layer, feat, layer_out, result>>
    /\ UNCHANGED restVars

\* optimizer.step(): Adam moves the learned parameters; train returns
OptimizerStep ==
    /\ mpc = "step"
    /\ \E s \in Settings : model' = [model EXCEPT !.theta = s]
    /\ optimizer' = [optimizer EXCEPT !.step = @ + 1]
    /\ fn' = "none"
    /\ mpc' = "idle"
    /\ feat' = NoTensor
    /\ layer_out' = NoTensor
    /\ layer' = 0
    /\ result' = [fn |-> "train", val |-> <<>>]
    /\ UNCHANGED <<kernelVars, layerVars, data>>
    /\ UNCHANGED restVars

\* ---- predictions
\* the labels of the nodes: 0, 1, 0, 1 as in the notebook, kept within the
\* classes the model has
labels(n, classes) == [r \in 1..n |-> (r - 1) % classes]

\* t.argmax(dim=1): per row the first column holding the greatest value, a
\* NaN counting as the greatest
argmax(t) ==
    [r \in 1..t.n |->
        LET top(j) == \/ t.rows[r][j] = NaN
                      \/ /\ \A c \in 1..t.c : t.rows[r][c] # NaN
                         /\ \A c \in 1..t.c : Leq(t.rows[r][c], t.rows[r][j])
        IN (CHOOSE j \in 1..t.c : top(j) /\ \A c \in 1..(j - 1) : ~top(c)) - 1]

\* preds.eq(labels).sum().item() / labels.size(0)
accuracy(preds, labels_) ==
    Norm(Cardinality({r \in DOMAIN preds : preds[r] = labels_[r]}), Len(labels_))

\* preds = out.argmax(dim=1); evaluate returns the accuracy, infer the preds
Predict ==
    /\ mpc = "forwarded"
    /\ fn \in {"evaluate", "infer"}
    /\ fn' = "none"
    /\ mpc' = "idle"
    /\ feat' = NoTensor
    /\ layer_out' = NoTensor
    /\ layer' = 0
    /\ result' = IF fn = "evaluate"
                  THEN [fn |-> fn, val |-> accuracy(argmax(feat), labels(feat.n, feat.c))]
                  ELSE [fn |-> fn, val |-> argmax(feat)]
    /\ UNCHANGED <<kernelVars, layerVars, model, optimizer, data>>
    /\ UNCHANGED restVars

\* the exception ends the function; the notebook goes on with the model
Abort ==
    /\ mpc = "raised"
    /\ fn' = "none"
    /\ mpc' = "idle"
    /\ err' = "none"
    /\ feat' = NoTensor
    /\ layer_out' = NoTensor
    /\ layer' = 0
    /\ UNCHANGED <<x, edge_index, pc, op, messages, counts, i, aggregated, layerVars>>
    /\ UNCHANGED <<model, optimizer, data, result>>
    /\ UNCHANGED restVars

NextModel ==
    \/ Train
    \/ Evaluate
    \/ Infer
    \/ SetMode
    \/ Forward
    \/ LayerCall
    \/ Gather
    \/ LayerAggregate
    \/ AggregateMaxStep
    \/ AggregateMaxReturn
    \/ UpdateNodes
    \/ Project
    \/ Activate
    \/ LayerReturn
    \/ LayerRaise
    \/ BatchNorm
    \/ Dropout
    \/ Backward
    \/ OptimizerStep
    \/ Predict
    \/ Abort

SpecModel == InitModel /\ [][NextModel]_vars

\* ------------------------------------------------------------ gan
\* Generator and Discriminator of the GAN notebook, followed through the
\* shapes (B, C, H, W) of the tensors passed along self.main.

\* batch sizes tried (batch_size is 128 in the notebook)
MaxBatch == 2

latent_vector_size == 100

\* the modules of nn.Sequential
ConvTranspose2d(in_channels, out_channels, kernel_size, stride, padding) ==
    [type |-> "ConvTranspose2d", in |-> in_channels, out |-> out_channels,
     kernel |-> kernel_size, stride |-> stride, padding |-> padding]
Conv2d(in_channels, out_channels, kernel_size, stride, padding) ==
    [type |-> "Conv2d", in |-> in_channels, out |-> out_channels,
     kernel |-> kernel_size, stride |-> stride, padding |-> padding]
BatchNorm2d(num_features) ==
    [type |-> "BatchNorm2d", in |-> num_features, out |-> num_features,
     kernel |-> 0, stride |-> 0, padding |-> 0]
Pointwise(name) ==
    [type |-> name, in |-> 0, out |-> 0, kernel |-> 0, stride |-> 0, padding |-> 0]

\* Generator.main
Generator ==
    <<ConvTranspose2d(latent_vector_size, 512, 4, 1, 0), BatchNorm2d(512), Pointwise("ReLU"),
      ConvTranspose2d(512, 256, 4, 2, 1), BatchNorm2d(256), Pointwise("ReLU"),
      ConvTranspose2d(256, 128, 4, 2, 1), BatchNorm2d(128), Pointwise("ReLU"),
      ConvTranspose2d(128, 64, 4, 2, 1), BatchNorm2d(64), Pointwise("ReLU"),
      ConvTranspose2d(64, 3, 4, 2, 1), Pointwise("Tanh")>>

\* Discriminator.main
Discriminator ==
    <<Conv2d(3, 64, 4, 2, 1), Pointwise("LeakyReLU"),
      Conv2d(64, 128, 4, 2, 1), BatchNorm2d(128), Pointwise("LeakyReLU"),
      Conv2d(128, 256, 4, 2, 1), BatchNorm2d(256), Pointwise("LeakyReLU"),
      Conv2d(256, 512, 4, 2, 1), BatchNorm2d(512), Pointwise("LeakyReLU"),
      Conv2d(512, 1, 4, 1, 0), Pointwise("Sigmoid")>>

Main(n) == IF n = "generator" THEN Generator ELSE Discriminator

\* mutant of conv_transpose_size: the padding is not taken off
conv_transpose_size_asUnpadded(size, m) == (size - 1) * m.stride + m.kernel

\* side of the output of a transposed convolution (dilation 1, no output
\* padding)
conv_transpose_size(size, m) == (size - 1) * m.stride - 2 * m.padding + m.kernel

\* side of the output of a convolution (dilation 1)
conv_size(size, m) == ((size + 2 * m.padding - m.kernel) \div m.stride) + 1

\* the shape a module of self.main returns on a tensor of shape s; the
\* modules are in training mode, as constructed
apply(m, s) ==
    IF m.type = "ConvTranspose2d"
    THEN IF s[2] # m.in THEN Raise("RuntimeError")
         ELSE Return(<<s[1], m.out, conv_transpose_size(s[3], m), conv_transpose_size(s[4], m)>>)
    ELSE IF m.type = "Conv2d"
    THEN IF s[2] # m.in THEN Raise("RuntimeError")
         ELSE IF s[3] + 2 * m.padding < m.kernel \/ s[4] + 2 * m.padding < m.kernel
         THEN Raise("RuntimeError")
         ELSE Return(<<s[1], m.out, conv_size(s[3], m), conv_size(s[4], m)>>)
    ELSE IF m.type = "BatchNorm2d"
    THEN IF s[2] # m.in THEN Raise("RuntimeError")
         ELSE IF s[1] * s[3] * s[4] = 1 THEN Raise("ValueError")
         ELSE Return(s)
    ELSE Return(s)

\* the latent tensors the generator is called on: the notebook's noise, and
\* tensors with other channel counts and sides
Noises == {<<B, c, h, h>> : B \in 1..MaxBatch, c \in {latent_vector_size, 3}, h \in 1..2}

\* the images the discriminator is called on besides the generator's
Images == {<<B, c, h, h>> : B \in 1..MaxBatch, c \in {3, 1}, h \in {64, 63, 32}}

\* the notebook before its models are called
InitGan ==
    /\ NoGan
    /\ NoExport
    /\ NoApp
    /\ NoGraphRun

\* fake_images = generator(noise)
CallGenerator ==
    /\ net = "none"
    /\ \E s \in Noises :
          /\ arg' = s
          /\ shape' = s
    /\ net' = "generator"
    /\ pos' = 0
    /\ gan_err' = "none"
    /\ UNCHANGED fake_images
    /\ UNCHANGED <<kernelVars, layerVars, modelVars, exportVars, appVars>>

\* discriminator(torch.randn(batch_size, 3, 64, 64)) and
\* discriminator(fake_images.detach())
CallDiscriminator ==
    /\ net = "none"
    /\ \E s \in Images \cup (IF fake_images = <<>> THEN {} ELSE {fake_images}) :
          /\ arg' = s
          /\ shape' = s
    /\ net' = "discriminator"
    /\ pos' = 0
    /\ gan_err' = "none"
    /\ UNCHANGED fake_images
    /\ UNCHANGED <<kernelVars, layerVars, modelVars, exportVars, appVars>>

\* nn.Sequential.forward: the next module of self.main is applied
ApplyModule ==
    /\ net # "none"
    /\ gan_err = "none"
    /\ pos < Len(Main(net))
    /\ LET r == apply(Main(net)[pos + 1], shape)
       IN /\ shape' = IF r.ok THEN r.val ELSE shape
          /\ pos' = IF r.ok THEN pos + 1 ELSE pos
          /\ gan_err' = r.err
    /\ UNCHANGED <<net, arg, fake_images>>
    /\ UNCHANGED <<kernelVars, layerVars, modelVars, exportVars, appVars>>

\* return self.main(input)
ForwardReturn ==
    /\ net # "none"
    /\ gan_err = "none"
    /\ pos = Len(Main(net))
    /\ fake_images' = IF net = "generator" THEN shape ELSE fake_images
    /\ net' = "none"
    /\ UNCHANGED <<arg, pos, shape, gan_err>>
    /\ UNCHANGED <<kernelVars, layerVars, modelVars, exportVars, appVars>>

\* a module of self.main raised
ForwardRaise ==
    /\ net # "none"
    /\ gan_err # "none"
    /\ net' = "none"
    /\ UNCHANGED <<arg, pos, shape, fake_images, gan_err>>
    /\ UNCHANGED <<kernelVars, layerVars, modelVars, exportVars, appVars>>

NextGan ==
    \/ CallGenerator
    \/ CallDiscriminator
    \/ ApplyModule
    \/ ForwardReturn
    \/ ForwardRaise

SpecGan == InitGan /\ [][NextGan]_vars

\* ------------------------------------------------------------ torchscript
\* SimpleNet traced, ControlFlowNet scripted, both saved and loaded back.

\* the widths of the layers, for 28 * 28, 128, 64 and 10 in the notebook
Pixels == 3
Width1 == 2
Width2 == 1
Classes == 2

\* the nn.Linear layers of a class, in the order __init__ registers them
Layers(cls) ==
    IF cls = "SimpleNet"
    THEN <<[name |-> "fc1", in |-> Pixels, out |-> Width1],
           [name |-> "fc2", in |-> Width1, out |-> Width2],
           [name |-> "fc3", in |-> Width2, out |-> Classes]>>
    ELSE <<[name |-> "fc1", in |-> Pixels, out |-> Width1],
           [name |-> "fc2a", in |-> Width1, out |-> Width2],
           [name |-> "fc2b", in |-> Width2, out |-> Width2],
           [name |-> "fc3", in |-> Width2, out |-> Classes]>>
LayerNames(cls) == {Layers(cls)[k].name : k \in 1..Len(Layers(cls))}
LayerNamed(cls, name) == CHOOSE l \in {Layers(cls)[k] : k \in 1..Len(Layers(cls))} : l.name = name

\* SimpleNet() or ControlFlowNet() with its parameters at setting s
NewModule(cls, s) ==
    [kind |-> "eager", cls |-> cls, graph |-> <<>>,
     params |-> [n \in LayerNames(cls) |->
                    Parameters(s, LayerNamed(cls, n).in, LayerNamed(cls, n).out)],
     training |-> TRUE]

\* the elements of t in row-major order
Flat(t) == [k \in 1..(t.n * t.c) |-> t.rows[((k - 1) \div t.c) + 1][((k - 1) % t.c) + 1]]

\* t.view(-1, cols): refused when the elements do not fill whole rows
view(t, cols) ==
    IF (t.n * t.c) % cols # 0 THEN Raise("RuntimeError")
    ELSE Return(Tensor((t.n * t.c) \div cols, cols,
                       [r \in 1..((t.n * t.c) \div cols) |->
                           [j \in 1..cols |-> Flat(t)[(r - 1) * cols + j]]]))

\* t.sum()
RECURSIVE SumUpTo(_, _)
SumUpTo(flat, k) == IF k = 0 THEN Num(0) ELSE Add(SumUpTo(flat, k - 1), flat[k])
TensorSum(t) == SumUpTo(Flat(t), t.n * t.c)

\* a > 0; NaN is not
Positive(a) == a # NaN /\ a # Num(0) /\ Leq(Num(0), a)

zeros_like(t) == Zeros(t.n, t.c)

\* the next statement F of a forward applied to the value r holds, an
\* exception r holds being passed on
Bind(r, F(_)) == CHOOSE res \in {IF v.ok THEN F(v.val) ELSE v : v \in {r}} : TRUE

\* F.relu(fc(t))
Layer(lin, t) == Bind(Linear(lin, t), LAMBDA a : Return(Relu(a)))

\* SimpleNet.forward
SimpleNet_forward(p, t) ==
    Bind(Bind(Bind(view(t, Pixels),
                   LAMBDA v : Layer(p["fc1"], v)),
              LAMBDA h1 : Layer(p["fc2"], h1)),
         LAMBDA h2 : Linear(p["fc3"], h2))

\* ControlFlowNet.forward
ControlFlowNet_forward(p, t) ==
    Bind(Bind(Bind(Bind(view(t, Pixels),
                        LAMBDA v : Layer(p["fc1"], v)),
                   LAMBDA h1 : Layer(p["fc2a"], h1)),
              LAMBDA h2 : Layer(p["fc2b"], h2)),
         LAMBDA h3 : IF Positive(TensorSum(h3))
                     THEN Linear(p["fc3"], h3)
                     ELSE Bind(Linear(p["fc3"], h3), LAMBDA a : Return(zeros_like(a))))

\* the nodes of a TorchScript graph
Node(op_, name) == [op |-> op_, name |-> name, cols |-> 0, true_block |-> <<>>, false_block |-> <<>>]
ViewNode(cols) == [Node("view", "") EXCEPT !.cols = cols]
IfSumPositive(true_block, false_block) ==
    [Node("if_sum_gt_0", "") EXCEPT !.true_block = true_block, !.false_block = false_block]

\* the graph tracing records of SimpleNet.forward: it has no branch
SimpleNetGraph ==
    <<ViewNode(Pixels), Node("linear", "fc1"), Node("relu", ""),
      Node("linear", "fc2"), Node("relu", ""), Node("linear", "fc3")>>

\* mutant of ControlFlowNetGraph: the graph tracing would record on an input
\* that takes the first branch
ControlFlowNetGraph_asTraced ==
    <<ViewNode(Pixels), Node("linear", "fc1"), Node("relu", ""),
      Node("linear", "fc2a"), Node("relu", ""), Node("linear", "fc2b"), Node("relu", ""),
      Node("linear", "fc3")>>

\* the graph torch.jit.script compiles ControlFlowNet.forward to
ControlFlowNetGraph ==
    <<ViewNode(Pixels), Node("linear", "fc1"), Node("relu", ""),
      Node("linear", "fc2a"), Node("relu", ""), Node("linear", "fc2b"), Node("relu", ""),
      IfSumPositive(<<Node("linear", "fc3")>>,
                    <<Node("linear", "fc3"), Node("zeros_like", "")>>)>>

\* the graph g run from node k on, r being the value so far
RECURSIVE RunGraph(_, _, _, _)
RunGraph(g, p, r, k) ==
    IF k > Len(g) THEN r
    ELSE RunGraph(g, p,
                  Bind(r, LAMBDA t :
                         IF g[k].op = "view" THEN view(t, g[k].cols)
                         ELSE IF g[k].op = "linear"
                         THEN (IF g[k].name \in DOMAIN p THEN Linear(p[g[k].name], t)
                               ELSE Raise("RuntimeError"))
                         ELSE IF g[k].op = "relu" THEN Return(Relu(t))
                         ELSE IF g[k].op = "zeros_like" THEN Return(zeros_like(t))
                         ELSE IF Positive(TensorSum(t))
                         THEN RunGraph(g[k].true_block, p, Return(t), 1)
                         ELSE RunGraph(g[k].false_block, p, Return(t), 1)),
                  k + 1)

\* m(t): an eager module runs its forward, a TorchScript module its graph
forward(m, t) ==
    IF m.kind = "eager"
    THEN (IF m.cls = "SimpleNet" THEN SimpleNet_forward(m.params, t)
          ELSE ControlFlowNet_forward(m.params, t))
    ELSE RunGraph(m.graph, m.params, Return(t), 1)

\* torch.jit.trace(m, example_input) and torch.jit.script(m): the compiled
\* module holds the parameters of m
Compiled(m, g) == [kind |-> "script", cls |-> m.cls, graph |-> g, params |-> m.params,
                   training |-> m.training]

\* a weight written row by row, and read back
Flatten(lin) == [k \in 1..(lin.out * lin.in) |-> lin.W[((k - 1) \div lin.in) + 1][((k - 1) % lin.in) + 1]]

\* mutant of Unflatten: the data is read column by column
Unflatten_asColumnMajor(data_, rows, cols) ==
    [o \in 1..rows |-> [j \in 1..cols |-> data_[(j - 1) * rows + o]]]

Unflatten(data_, rows, cols) ==
    [o \in 1..rows |-> [j \in 1..cols |-> data_[(o - 1) * cols + j]]]

\* m.save(f): the archive holds the code and, per layer, weight and bias
\* with their shapes
save(m) ==
    [written |-> TRUE, original_name |-> m.cls, code |-> m.graph,
     tensors |-> [k \in 1..Len(Layers(m.cls)) |->
                     LET n == Layers(m.cls)[k].name
                     IN [name |-> n,
                         weight |-> [shape |-> <<m.params[n].out, m.params[n].in>>,
                                     data |-> Flatten(m.params[n])],
                         bias |-> [shape |-> <<m.params[n].out>>, data |-> m.params[n].b]]],
     training |-> m.training]

\* torch.jit.load(f): the module is rebuilt from the archive
load(file) ==
    [kind |-> "script", cls |-> file.original_name, graph |-> file.code,
     params |-> [n \in {file.tensors[k].name : k \in 1..Len(file.tensors)} |->
                    LET e == CHOOSE e \in {file.tensors[k] : k \in 1..Len(file.tensors)} :
                                 e.name = n
                    IN [in |-> e.weight.shape[2], out |-> e.weight.shape[1],
                        W |-> Unflatten(e.weight.data, e.weight.shape[1], e.weight.shape[2]),
                        b |-> e.bias.data]],
     training |-> file.training]

\* torch.randn(1, 1, 28, 28): one image
Samples ==
    {Tensor(1, Pixels, <<[j \in 1..Pixels |-> Num(1)]>>),
     Tensor(1, Pixels, <<[j \in 1..Pixels |-> IF j % 2 = 1 THEN Num(1) ELSE Num(-1)]>>)}

\* what is bound to an output name by m(t)
Output(m, t) ==
    CHOOSE o \in {[ran |-> TRUE, arg |-> t, ok |-> r.ok, val |-> r.val, err |-> r.err] :
                     r \in {forward(m, t)}} : TRUE

\* the trained SimpleNet is bound to model
InitExport ==
    /\ \E s \in Settings :
          modules = [n \in ModuleNames |->
                        IF n = "model" THEN NewModule("SimpleNet", s) ELSE NoModule]
    /\ files = [f \in FileNames |-> NoFile]
    /\ outs = [n \in OutputNames |-> NoOutput]
    /\ NoApp
    /\ NoGan
    /\ NoGraphRun

\* model.eval(); traced_model = torch.jit.trace(model, example_input)
Trace ==
    /\ LET m == [modules["model"] EXCEPT !.training = FALSE]
       IN modules' = [modules EXCEPT !["model"] = m,
                                     !["traced_model"] = Compiled(m, SimpleNetGraph)]
    /\ UNCHANGED <<files, outs>>
    /\ UNCHANGED <<kernelVars, layerVars, modelVars, appVars, ganVars>>

\* cf_model = ControlFlowNet(); scripted_cf_model = torch.jit.script(cf_model)
Script ==
    /\ \E s \in Settings :
          LET m == NewModule("ControlFlowNet", s)
          IN modules' = [modules EXCEPT !["cf_model"] = m,
                                        !["scripted_cf_model"] = Compiled(m, ControlFlowNetGraph)]
    /\ UNCHANGED <<files, outs>>
    /\ UNCHANGED <<kernelVars, layerVars, modelVars, appVars, ganVars>>

\* cf_model.eval(); scripted_cf_model.eval()
EvalMode ==
    /\ modules["cf_model"].kind # "none"
    /\ modules' = [modules EXCEPT !["cf_model"].training = FALSE,
                                  !["scripted_cf_model"].training = FALSE]
    /\ UNCHANGED <<files, outs>>
    /\ UNCHANGED <<kernelVars, layerVars, modelVars, appVars, ganVars>>

\* input_sample = torch.randn(1, 1, 28, 28);
\* original_output = cf_model(input_sample);
\* scripted_output = scripted_cf_model(input_sample)
CompareScripted ==
    /\ modules["cf_model"].kind # "none"
    /\ \E t \in Samples :
          outs' = [outs EXCEPT
                    !["original_output"] = Output(modules["cf_model"], t),
                    !["scripted_output"] = Output(modules["scripted_cf_model"], t)]
    /\ UNCHANGED <<modules, files>>
    /\ UNCHANGED <<kernelVars, layerVars, modelVars, appVars, ganVars>>

\* traced_model.save('traced_mnist_model.pt')
SaveTraced ==
    /\ modules["traced_model"].kind # "none"
    /\ files' = [files EXCEPT !["traced_mnist_model.pt"] = save(modules["traced_model"])]
    /\ UNCHANGED <<modules, outs>>
    /\ UNCHANGED <<kernelVars, layerVars, modelVars, appVars, ganVars>>

\* scripted_cf_model.save('scripted_cf_model.pt')
SaveScripted ==
    /\ modules["scripted_cf_model"].kind # "none"
    /\ files' = [files EXCEPT !["scripted_cf_model.pt"] = save(modules["scripted_cf_model"])]
    /\ UNCHANGED <<modules, outs>>
    /\ UNCHANGED <<kernelVars, layerVars, modelVars, appVars, ganVars>>

\* loaded_traced = torch.jit.load('traced_mnist_model.pt')
LoadTraced ==
    /\ files["traced_mnist_model.pt"].written
    /\ modules' = [modules EXCEPT !["loaded_traced"] = load(files["traced_mnist_model.pt"])]
    /\ UNCHANGED <<files, outs>>
    /\ UNCHANGED <<kernelVars, layerVars, modelVars, appVars, ganVars>>

\* loaded_scripted = torch.jit.load('scripted_cf_model.pt')
LoadScripted ==
    /\ files["scripted_cf_model.pt"].written
    /\ modules' = [modules EXCEPT !["loaded_scripted"] = load(files["scripted_cf_model.pt"])]
    /\ UNCHANGED <<files, outs>>
    /\ UNCHANGED <<kernelVars, layerVars, modelVars, appVars, ganVars>>

\* loaded_traced.eval(); original_out = traced_model(sample);
\* loaded_out = loaded_traced(sample)
CompareLoaded ==
    /\ modules["traced_model"].kind # "none"
    /\ modules["loaded_traced"].kind # "none"
    /\ modules' = [modules EXCEPT !["loaded_traced"].training = FALSE]
    /\ \E t \in Samples :
          outs' = [outs EXCEPT
                    !["original_out"] = Output(modules["traced_model"], t),
                    !["loaded_out"] = Output(modules["loaded_traced"], t)]
    /\ UNCHANGED files
    /\ UNCHANGED <<kernelVars, layerVars, modelVars, appVars, ganVars>>

\* the cleanup cell: the saved files are removed
Cleanup ==
    /\ \E f \in FileNames : files[f].written
    /\ files' = [f \in FileNames |-> NoFile]
    /\ UNCHANGED <<modules, outs>>
    /\ UNCHANGED <<kernelVars, layerVars, modelVars, appVars, ganVars>>

NextExport ==
    \/ Trace
    \/ Script
    \/ EvalMode
    \/ CompareScripted
    \/ SaveTraced
    \/ SaveScripted
    \/ LoadTraced
    \/ LoadScripted
    \/ CompareLoaded
    \/ Cleanup

SpecExport == InitExport /\ [][NextExport]_vars

\* ------------------------------------------------------------ flask app
\* SimpleModel saved to project/model.pth, the app that loads it, and the
\* final /predict handler.

\* nn.Linear(4, 3) of SimpleModel
in_features == 4
out_features == 3

\* the longest list of numbers sent as 'features'
MaxFeatures == 5

\* bool(v) of Python for a JSON value
Truthy(v) ==
    IF v.t = "null" THEN FALSE
    ELSE IF v.t \in {"bool", "num"} THEN v.n # 0
    ELSE IF v.t = "str" THEN v.s # ""
    ELSE v.items # <<>>

IsScalar(v) == v.t \in {"num", "bool"}
IsRow(v) == v.t = "list" /\ \A k \in 1..Len(v.items) : IsScalar(v.items[k])

\* the bodies clients send
NumberLists ==
    UNION {{JList([k \in 1..n |-> JNum(f[k])]) : f \in [1..n -> {-1, 1}]} : n \in 1..MaxFeatures}
OtherLists ==
    {JList(<<>>),
     JList(<<JStr("a"), JStr("b")>>),
     JList(<<JStr("a"), JStr("b"), JStr("c"), JStr("d")>>),
     JList(<<JNum(1), JNum(1), JNum(1), JNull>>),
     JList(<<JNum(1), JNull>>),
     JList(<<JBool(TRUE), JBool(FALSE), JBool(TRUE), JBool(TRUE)>>),
     JList(<<JList(<<JNum(1)>>), JList(<<JNum(1)>>), JList(<<JNum(1)>>), JList(<<JNum(1)>>)>>),
     JList(<<JList(<<JNum(1), JNum(1), JNum(1), JNum(1)>>)>>),
     JList([k \in 1..in_features |-> JList([j \in 1..in_features |-> JNum(1)])]),
     JList(<<JList(<<JNum(1)>>), JList(<<JNum(1), JNum(1)>>)>>),
     JList(<<JNum(1), JList(<<JNum(1)>>)>>)}
NotLists ==
    {JNull, JNum(0), JNum(1), JBool(TRUE), JBool(FALSE), JStr(""), JStr("abcd"),
     JObj(<<>>), JObj(<<JNum(1)>>)}
Bodies ==
    {Malformed, JNull, JNum(1), JStr("abcd"), JList(<<JNum(1)>>), JObj(<<>>)}
    \cup {JObj(<<v>>) : v \in NumberLists \cup OtherLists \cup NotLists}

\* request.get_json(force=True): a body that is not JSON is refused
get_json(body) == IF body.t = "bad" THEN Raise("BadRequest") ELSE Return(body)

\* data.get('features'): None when the key is absent; only a dict has get
get_features(data_) ==
    IF data_.t # "obj" THEN Raise("AttributeError")
    ELSE IF data_.items = <<>> THEN Return(JNull)
    ELSE Return(data_.items[1])

\* torch.tensor(features, dtype=torch.float32) of a list: numbers give one
\* dimension, rows of numbers of one length give two, anything else is
\* refused
torch_tensor(features) ==
    LET v == features.items
        n == Len(v)
    IN IF \A k \in 1..n : IsScalar(v[k])
       THEN Return([shape |-> <<n>>, data |-> [k \in 1..n |-> Num(v[k].n)]])
       ELSE IF \E k \in 1..n : v[k].t \in {"null", "obj"} THEN Raise("TypeError")
       ELSE IF /\ \A k \in 1..n : IsRow(v[k])
               /\ \A k \in 1..n : Len(v[k].items) = Len(v[1].items)
       THEN Return([shape |-> <<n, Len(v[1].items)>>,
                    data |-> [k \in 1..n |->
                                [j \in 1..Len(v[k].items) |-> Num(v[k].items[j].n)]]])
       ELSE Raise("ValueError")

\* the body of the try block from the shape check on, input_tensor being
\* unsqueezed: model(input_tensor), softmax, argmax(...).item(), jsonify
infer_response(lin, t) ==
    LET dims == <<1>> \o t.shape
    IN IF dims[2] # in_features
       THEN [status |-> 400,
             body |-> [NoBody EXCEPT !.error = "Expected 4 features, got", !.got = dims[2]]]
       ELSE IF dims[Len(dims)] # lin.in
       THEN [status |-> 500, body |-> [NoBody EXCEPT !.error = "RuntimeError"]]
       ELSE IF Len(dims) > 2
       THEN \* argmax over dim 1 leaves more than one element for item()
            [status |-> 500, body |-> [NoBody EXCEPT !.error = "RuntimeError"]]
       ELSE LET logits == Linear(lin, Tensor(1, in_features, <<t.data>>)).val
            IN [status |-> 200,
                body |-> [NoBody EXCEPT
                             !.class = argmax(logits)[1],
                             !.probabilities = [of |-> "softmax", logits |-> logits.rows[1]]]]

\* what predict() answers to a body: an exception raised in the try block is
\* caught by except Exception and answered 500 with str(e); nothing in the
\* try block opens a file, so except FileNotFoundError catches nothing
predict_response(body, lin) ==
    LET data_ == get_json(body)
    IN IF ~data_.ok
       THEN [status |-> 500, body |-> [NoBody EXCEPT !.error = data_.err]]
       ELSE LET features == get_features(data_.val)
            IN IF ~features.ok
               THEN [status |-> 500, body |-> [NoBody EXCEPT !.error = features.err]]
               ELSE IF ~Truthy(features.val) \/ features.val.t # "list"
               THEN [status |-> 400,
                     body |-> [NoBody EXCEPT !.error = "\"features\" must be a list"]]
               ELSE LET input_tensor == torch_tensor(features.val)
                    IN IF ~input_tensor.ok
                       THEN [status |-> 500, body |-> [NoBody EXCEPT !.error = input_tensor.err]]
                       ELSE infer_response(lin, input_tensor.val)

\* nothing saved, the app not started
InitApp ==
    /\ NoApp
    /\ NoExport
    /\ NoGan
    /\ NoGraphRun

\* model = SimpleModel(); torch.save(model.state_dict(), 'project/model.pth')
SaveModel ==
    /\ \E s \in Settings :
          model_file' = [exists |-> TRUE, state_dict |-> Parameters(s, in_features, out_features)]
    /\ UNCHANGED <<app, app_model, request, response>>
    /\ UNCHANGED <<kernelVars, layerVars, modelVars, exportVars, ganVars>>

\* the file is deleted or moved away
RemoveModelFile ==
    /\ model_file.exists
    /\ model_file' = [exists |-> FALSE, state_dict |-> NoLinear]
    /\ UNCHANGED <<app, app_model, request, response>>
    /\ UNCHANGED <<kernelVars, layerVars, modelVars, exportVars, ganVars>>

\* the app is started: model.load_state_dict(torch.load('project/model.pth'))
\* runs once, outside any handler; without the file torch.load raises
\* FileNotFoundError and the app does not come up
StartApp ==
    /\ app = "stopped"
    /\ IF model_file.exists
       THEN /\ app' = "running"
            /\ app_model' = model_file.state_dict
       ELSE /\ app' = "failed"
            /\ app_model' = NoLinear
    /\ UNCHANGED <<model_file, request, response>>
    /\ UNCHANGED <<kernelVars, layerVars, modelVars, exportVars, ganVars>>

\* the app is stopped; the last exchange stays with the client
StopApp ==
    /\ app \in {"running", "failed"}
    /\ app' = "stopped"
    /\ app_model' = NoLinear
    /\ UNCHANGED <<model_file, request, response>>
    /\ UNCHANGED <<kernelVars, layerVars, modelVars, exportVars, ganVars>>

\* POST /predict: predict() handles a request
predict ==
    /\ app = "running"
    /\ \E body \in Bodies :
          /\ request' = body
          /\ response' = predict_response(body, app_model)
    /\ UNCHANGED <<model_file, app, app_model>>
    /\ UNCHANGED <<kernelVars, layerVars, modelVars, exportVars, ganVars>>

NextApp ==
    \/ SaveModel
    \/ RemoveModelFile
    \/ StartApp
    \/ StopApp
    \/ predict

SpecApp == InitApp /\ [][NextApp]_vars

\* ------------------------------------------------------------ properties
\* the graph of the call, as the claims speak of it
N == x.n
E == Len(Sources(edge_index))
Nodes == 0..(N - 1)
Edges == 1..E
SourceOf(e) == Sources(edge_index)[e]
TargetOf(e) == Targets(edge_index)[e]
ValidSources == \A e \in Edges : SourceOf(e) \in Nodes
ValidTargets == \A e \in Edges : TargetOf(e) \in Nodes
ValidGraph == ValidSources /\ ValidTargets
\* the edges whose target is node v
InEdges(v) == {e \in Edges : TargetOf(e) = v}
\* the aggregation operator has finished: it returned or it raised
AggregationEnded == op # "none" /\ pc \in {"aggregated", "error"}
Returned(o) == op = o /\ pc = "aggregated"
RowOf(t, v) == t.rows[v + 1]

\* the integer sum over the edges S of component c of the source's features
RECURSIVE SourceSum(_, _)
SourceSum(S, c) ==
    IF S = {} THEN 0
    ELSE LET e == CHOOSE d \in S : TRUE
         IN RowOf(x, SourceOf(e))[c][1] + SourceSum(S \ {e}, c)

\* C1: for a valid graph (the empty edge list included) each of the three
\* operators returns a matrix with exactly N rows and as many columns as
\* the messages.
C1_OutputRowsEqualNodeCount ==
    (ValidGraph /\ AggregationEnded) =>
        /\ pc = "aggregated"
        /\ aggregated.n = N
        /\ Len(aggregated.rows) = N
        /\ aggregated.c = messages.c
        /\ \A v \in Nodes : Len(RowOf(aggregated, v)) = messages.c

C1_Witness ==
    /\ Returned("max")
    /\ N = 2
    /\ E = 0
    /\ messages.n = 0
    /\ messages.c = 2
    /\ Len(aggregated.rows) = 2

\* C2: after message_passing and aggregate_messages, row v is the
\* elementwise sum of the source features over the edges into v, a repeated
\* edge counting once per occurrence; on the notebook's graph row 0 is [1, 2].
C2_SumOfSourceFeatures ==
    Returned("sum") =>
        /\ \A v \in Nodes : \A c \in 1..x.c :
              RowOf(aggregated, v)[c] = <<SourceSum(InEdges(v), c), 1>>
        /\ (x = NotebookX /\ edge_index = NotebookEdgeIndex) =>
              RowOf(aggregated, 0) = <<Num(1), Num(2)>>

C2_Witness ==
    /\ Returned("sum")
    /\ x = NotebookX
    /\ edge_index = NotebookEdgeIndex
    /\ InEdges(0) = {3, 6}

\* C3: the sum-aggregation row of a node that is the target of no edge is
\* the zero vector.
C3_SumOfIsolatedNodeIsZero ==
    Returned("sum") =>
        \A v \in Nodes : InEdges(v) = {} =>
            RowOf(aggregated, v) = [c \in 1..x.c |-> Num(0)]

C3_Witness ==
    /\ Returned("sum")
    /\ E = 2
    /\ \E v \in Nodes : InEdges(v) = {} /\ RowOf(x, v) # [c \in 1..x.c |-> Num(0)]

\* C4: for a node v that is the target of k >= 1 edges (with multiplicity),
\* row v of aggregate_mean times k is row v of aggregate_messages.
C4_MeanTimesCountIsSum ==
    Returned("mean") =>
        \A v \in Nodes : \A c \in 1..x.c :
            LET k == Cardinality(InEdges(v))
                m == RowOf(aggregated, v)[c]
                total == RowOf(aggregate_messages(messages, edge_index, N).val, v)[c]
            IN k >= 1 =>
                 /\ IsFinite(m)
                 /\ m[1] * k * total[2] = total[1] * m[2]

C4_Witness ==
    /\ Returned("mean")
    /\ \E v \in Nodes :
          /\ Cardinality(InEdges(v)) = 2
          /\ SourceOf(1) = SourceOf(2)
          /\ RowOf(aggregated, v)[1] # Num(0)

\* C5: the divisor of every node in aggregate_mean is max(incoming-edge
\* count, 1), never 0, and a node with no incoming edge gets the zero vector.
C5_MeanDivisorClampedToOne ==
    /\ (op = "mean" /\ ValidTargets /\ pc \in {"aggregated", "error"}) =>
          /\ pc = "aggregated"
          /\ Len(counts) = N
          /\ \A v \in Nodes :
                LET k == Cardinality(InEdges(v))
                IN /\ counts[v + 1] = (IF k > 1 THEN k ELSE 1)
                   /\ counts[v + 1] # 0
    /\ Returned("mean") =>
          \A v \in Nodes : InEdges(v) = {} =>
              RowOf(aggregated, v) = [c \in 1..x.c |-> Num(0)]

C5_Witness ==
    /\ Returned("mean")
    /\ E = 2
    /\ \E v \in Nodes : InEdges(v) = {} /\ counts[v + 1] = 1
    /\ \E v \in Nodes : counts[v + 1] = 2

\* C6: for a node v that is the target of at least one edge, row v of
\* aggregate_max is, component by component, the maximum of the messages of
\* the edges into v.
C6_MaxIsElementwiseMaximum ==
    (ValidGraph /\ Returned("max")) =>
        \A v \in Nodes : InEdges(v) # {} =>
            \A c \in 1..x.c :
                LET m == RowOf(aggregated, v)[c]
                IN /\ \E e \in InEdges(v) : m = messages.rows[e][c]
                   /\ \A e \in InEdges(v) :
                         messages.rows[e][c][1] * m[2] <= m[1] * messages.rows[e][c][2]

C6_Witness ==
    /\ ValidGraph
    /\ Returned("max")
    /\ \E v \in Nodes :
          /\ InEdges(v) = {1, 2}
          /\ messages.rows[1] = <<Num(1), Num(-1)>>
          /\ messages.rows[2] = <<Num(-1), Num(1)>>
          /\ RowOf(aggregated, v) = <<Num(1), Num(1)>>

\* C7: for a node v that is the target of exactly one edge e, row v of
\* aggregate_max is the message of e, the feature vector of e's source.
C7_MaxOfSingleEdgeIsItsMessage ==
    (ValidGraph /\ Returned("max")) =>
        \A v \in Nodes : \A e \in Edges : InEdges(v) = {e} =>
            /\ RowOf(aggregated, v) = messages.rows[e]
            /\ RowOf(aggregated, v) = RowOf(x, SourceOf(e))

C7_Witness ==
    /\ ValidGraph
    /\ Returned("max")
    /\ E = 2
    /\ \E v \in Nodes : /\ InEdges(v) = {2}
                        /\ RowOf(aggregated, v) = <<Num(-1), Num(1)>>
                        /\ RowOf(x, v) # RowOf(aggregated, v)

\* C8: the row of aggregate_max for a node that is the target of no edge
\* is present and is negative infinity in every component.
C8_MaxOfIsolatedNodeIsNegInf ==
    (ValidGraph /\ Returned("max")) =>
        /\ Len(aggregated.rows) = N
        /\ \A v \in Nodes : InEdges(v) = {} =>
              /\ DOMAIN RowOf(aggregated, v) = 1..x.c
              /\ \A c \in 1..x.c :
                    /\ RowOf(aggregated, v)[c] = NegInf
                    /\ RowOf(aggregated, v)[c] # Num(0)
                    /\ RowOf(aggregated, v)[c] # RowOf(x, v)[c]

C8_Witness ==
    /\ ValidGraph
    /\ Returned("max")
    /\ E = 2
    /\ N = 2
    /\ InEdges(1) = {}
    /\ RowOf(aggregated, 1) = <<NegInf, NegInf>>
    /\ RowOf(aggregated, 0) # <<NegInf, NegInf>>

\* C9: message_passing returns E rows, row e being the feature vector of the
\* source of edge e in edge-list order, whatever the target indices are.
C9_MessagesCopySourceFeatures ==
    (ValidSources /\ pc # "call") =>
        /\ pc # "error" \/ op # "none"
        /\ messages.n = E
        /\ messages.c = x.c
        /\ DOMAIN messages.rows = 1..E
        /\ \A e \in Edges : messages.rows[e] = RowOf(x, SourceOf(e))
        /\ \A t \in IndexRange(N) :
              message_passing(x, <<Sources(edge_index), [e \in Edges |-> t]>>).val
                  = messages

C9_Witness ==
    /\ pc = "gathered"
    /\ E = 2
    /\ SourceOf(1) = 1
    /\ SourceOf(2) = 0
    /\ TargetOf(1) = 0
    /\ TargetOf(2) = 0
    /\ RowOf(x, 0) # RowOf(x, 1)
    /\ messages.rows = <<RowOf(x, 1), RowOf(x, 0)>>

\* C10: for each of the three operators, a target index outside [0, N)
\* (negative ones included) makes the aggregation fail with an error: no
\* aggregated matrix is returned and no message is written into a row of
\* another node.
C10_OutOfRangeTargetFails ==
    (ValidSources /\ ~ValidTargets) =>
        /\ AggregationEnded => (pc = "error" /\ err \in {"IndexError", "RuntimeError"})
        /\ pc = "max_loop" =>
              \A e \in 1..i : TargetOf(e) \in Nodes

\* ------------------------------------------------------------ layer properties
\* the layer's forward has got past its aggregation step
PastAggregation == pc \in {"aggregated", "updated", "projected", "returned"}
PastUpdate == pc \in {"updated", "projected", "returned"}
DoneOps == {o \in Ops : log[o].done}

\* C11: a source index outside [0, N) (negative ones included) makes
\* message_passing fail and aborts the forward call: no message matrix, no
\* aggregated matrix and no layer output is produced.
C11_BadSourceAbortsForward ==
    (\E e \in Edges : SourceOf(e) \notin Nodes) =>
        /\ pc \in {"call", "error"}
        /\ messages = NoTensor
        /\ aggregated = NoTensor
        /\ out = NoTensor
        /\ DoneOps = {}

C15_UpdateIsResidualSum ==
    PastUpdate =>
        /\ updated.n = x.n
        /\ updated.c = x.c
        /\ DOMAIN updated.rows = 1..x.n
        /\ \A v \in Nodes :
              /\ DOMAIN RowOf(updated, v) = 1..x.c
              /\ \A c \in 1..x.c :
                    LET own == RowOf(x, v)[c][1]
                        a == RowOf(aggregated, v)[c]
                        u == RowOf(updated, v)[c]
                    IN IF a = NegInf THEN u = NegInf
                       ELSE /\ IsFinite(u)
                            /\ u[1] * a[2] = (own * a[2] + a[1]) * u[2]

C15_Witness ==
    /\ pc = "updated"
    /\ op = "sum"
    /\ N = 2
    /\ InEdges(0) = {1, 2}
    /\ RowOf(aggregated, 0) = <<Num(-2), Num(2)>>
    /\ RowOf(x, 0) = <<Num(1), Num(-1)>>
    /\ RowOf(updated, 0) = <<Num(-1), Num(1)>>
    /\ RowOf(updated, 1) = RowOf(x, 1)

\* ------------------------------------------------------------ model properties
InLayer == mpc = "conv"
LayerPcs == {"call", "gathered", "max_loop", "aggregated", "updated", "projected",
             "returned", "error"}
\* the order of the steps of a layer's forward
StepOrder ==
    {<<"call", "gathered">>, <<"gathered", "aggregated">>, <<"gathered", "max_loop">>,
     <<"max_loop", "aggregated">>, <<"aggregated", "updated">>,
     <<"updated", "projected">>, <<"projected", "returned">>}
\* the aggregation operator of the model's layer class
Aggregated(o, messages_, edge_index_, num_nodes) ==
    IF o = "sum" THEN aggregate_messages(messages_, edge_index_, num_nodes)
    ELSE IF o = "mean" THEN aggregate_mean(messages_, edge_index_, num_nodes)
    ELSE aggregate_max(messages_, edge_index_, num_nodes)
\* t with every row but row r set to zero
Isolated(t, r) ==
    Tensor(t.n, t.c, [q \in 1..t.n |-> IF q = r THEN t.rows[q] ELSE [j \in 1..t.c |-> Num(0)]])
\* the learned parameters and the buffers of the model
Learned(m) == <<m.theta, m.conv>>
Buffers(m) == m.bn1

\* C14: a forward call of a layer or of a stacked model leaves the caller's
\* feature matrix and edge list as they were: no step of a layer writes to
\* the x or edge_index it was called on, every layer is called on the
\* caller's edge list and conv1 on the caller's x, and the in-place writes
\* of the aggregation go to the aggregated matrix only.
C14_ForwardLeavesInputsUnchanged ==
    [][/\ mpc # "idle" => data' = data
       /\ (InLayer /\ mpc' = "conv") =>
             /\ x' = x
             /\ edge_index' = edge_index
       /\ mpc' = "conv" =>
             /\ edge_index' = data'.edge_index
             /\ layer' = 1 => x' = data'.x
       /\ (InLayer /\ pc = "max_loop" /\ pc' = "max_loop") =>
             /\ messages' = messages
             /\ aggregated' # aggregated]_vars

C14_Witness ==
    /\ InLayer
    /\ layer = 2
    /\ pc = "max_loop"
    /\ i = 2
    /\ x # data.x
    /\ aggregated # MaxInit(x.n, x.c)

\* C16 as stated: the steps of a layer run once each in the order gather,
\* aggregate, update, linear, relu, and in a stacked model layer k+1 is
\* called on layer k's output and the unchanged edge list.
C16_NextLayerTakesPreviousOutput ==
    (InLayer /\ layer >= 2) =>
        /\ x = layer_out
        /\ edge_index = data.edge_index

\* C16 as amended: the steps of a layer run once each in the order gather,
\* aggregate, update, linear, relu, each on the previous step's output;
\* conv1 is called on the caller's x, every layer on the caller's edge list;
\* in DeeperGNN and GNNWithAggregation layer k+1 is called on layer k's
\* output, in SimpleGNN and TuningGNN conv2 is called on
\* dropout(bn1(conv1's output)).
C16_StepsInOrderLayersChained ==
    /\ [](InLayer =>
            /\ pc \in LayerPcs
            /\ layer \in 1..Len(model.conv)
            /\ edge_index = data.edge_index
            /\ layer = 1 => x = data.x
            /\ (layer >= 2 /\ ~HasBn(model)) => x = layer_out
            /\ (layer >= 2 /\ HasBn(model)) =>
                  \E mask \in (IF model.training THEN Masks(layer_out) ELSE {<<>>}) :
                      x = dropout(batch_norm(model.bn1, BnAffine(model.theta), layer_out,
                                             model.training).val,
                                  model.dropout_p, model.training, mask)
            /\ pc \in {"gathered", "max_loop", "aggregated", "updated", "projected", "returned"} =>
                  messages = message_passing(x, edge_index).val
            /\ PastAggregation =>
                  /\ op = model.conv_op
                  /\ aggregated = Aggregated(op, messages, edge_index, x.n).val
            /\ PastUpdate => updated = update_nodes(x, aggregated).val
            /\ pc \in {"projected", "returned"} => projected = Linear(linear, updated).val
            /\ pc = "returned" => out = Relu(projected))
    /\ [][(InLayer /\ mpc' = "conv" /\ pc' # pc) =>
             \/ <<pc, pc'>> \in StepOrder
             \/ pc' = "error"]_vars

C16_Witness ==
    /\ InLayer
    /\ layer = 3
    /\ pc = "returned"
    /\ x = layer_out
    /\ x # data.x
    /\ out # x

\* C17: the output of every layer and of every stacked model has exactly N
\* rows, N being the row count of the caller's feature matrix, and row v of
\* a layer's output is computed from row v of x and row v of the aggregated
\* matrix: no node is dropped, added or moved, isolated nodes included.
C17_OutputKeepsNodeRows ==
    /\ (InLayer /\ pc = "returned") =>
          /\ out.n = data.x.n
          /\ DOMAIN out.rows = 1..data.x.n
          /\ \A v \in 1..data.x.n :
                LET own == Tensor(1, x.c, <<RowAdd(x.rows[v], aggregated.rows[v])>>)
                IN out.rows[v] = Relu(Linear(linear, own).val).rows[1]
    /\ mpc \in {"bn", "dropout", "forwarded", "step"} =>
          /\ feat.n = data.x.n
          /\ DOMAIN feat.rows = 1..data.x.n
    /\ mpc \in {"forwarded", "step"} => feat.c = model.conv[Len(model.conv)].out

C17_Witness ==
    /\ mpc = "forwarded"
    /\ model.kind = "GNNWithAggregation"
    /\ model.conv_op = "mean"
    /\ data.x.n = 2
    /\ data.edge_index = << <<0>>, <<1>> >>
    /\ feat.n = 2
    /\ feat.rows[1] # feat.rows[2]

C20_DimensionMismatchRejected ==
    /\ model.kind # "none" =>
          /\ \A j \in 1..(Len(model.conv) - 1) : model.conv[j].out = model.conv[j + 1].in
          /\ HasBn(model) => model.bn1.num_features = model.conv[1].out
    /\ (InLayer /\ x.c # linear.in) =>
          /\ layer = 1
          /\ pc \notin {"projected", "returned"}
          /\ projected = NoTensor
          /\ out = NoTensor
    /\ (InLayer /\ pc = "error") =>
          /\ err = "RuntimeError"
          /\ x.c # linear.in
    /\ (mpc # "idle" /\ data.x.c # model.conv[1].in) =>
          /\ mpc \in {"mode", "forward", "next", "conv", "raised"}
          /\ layer <= 1
          /\ layer_out = NoTensor

C20_Witness ==
    /\ InLayer
    /\ pc = "error"
    /\ err = "RuntimeError"
    /\ x.c = 2
    /\ linear.in = 1
    /\ updated.n = 2
    /\ projected = NoTensor

\* ------------------------------------------------------------ loop properties
\* the first k edges whose target is node v
PrefixInEdges(v, k) == {e \in 1..k : TargetOf(e) = v}

\* C25: on a valid edge list the loop of aggregate_max runs exactly E
\* iterations (i goes up by one per iteration and the function returns at
\* i = E, where an iteration or the return is always possible); after i
\* iterations row v is the elementwise maximum of the messages of the first i
\* edges into v, negative infinity when there is none; and an iteration for
\* an edge with target t changes row t only.
C25_MaxLoopInvariant ==
    /\ []((op = "max" /\ ValidGraph) =>
            /\ pc \in {"max_loop", "aggregated"}
            /\ messages.n = E
            /\ i \in 0..E
            /\ pc = "aggregated" => i = E
            /\ \A v \in Nodes : \A c \in 1..x.c :
                  LET m == RowOf(aggregated, v)[c]
                      S == PrefixInEdges(v, i)
                  IN IF S = {} THEN m = NegInf
                     ELSE /\ \E e \in S : m = messages.rows[e][c]
                          /\ \A e \in S : Leq(messages.rows[e][c], m))
    /\ [][(op = "max" /\ ValidGraph /\ pc = "max_loop") =>
             \/ /\ pc' = "max_loop"
                /\ i < E
                /\ i' = i + 1
                /\ \A v \in Nodes :
                      v # TargetOf(i + 1) => RowOf(aggregated', v) = RowOf(aggregated, v)
             \/ /\ pc' = "aggregated"
                /\ i = E
                /\ aggregated' = aggregated]_vars

C25_Witness ==
    /\ ValidGraph
    /\ pc = "max_loop"
    /\ E = 2
    /\ i = 1
    /\ TargetOf(1) = 0
    /\ TargetOf(2) = 0
    /\ N = 2
    /\ RowOf(aggregated, 0) = messages.rows[1]
    /\ messages.rows[1] # messages.rows[2]
    /\ RowOf(aggregated, 1) = <<NegInf, NegInf>>

\* ------------------------------------------------------------ sentinel properties
FiniteRow(row) == \A j \in DOMAIN row : IsFinite(row[j])
NonFiniteRow(row) == \A j \in DOMAIN row : ~IsFinite(row[j])

\* C23: in a GraphConvMax layer, for every node without incoming edges the
\* update step yields negative infinity in every component where the node's
\* features are finite, that row is in the matrix the layer's linear
\* projection is applied to, and in every later layer of GNNWithAggregation
\* the update row of the node is again non-finite in every component.
C23_MaxSentinelReachesLinear ==
    (InLayer /\ model.conv_op = "max" /\ PastUpdate) =>
        /\ \A v \in Nodes : InEdges(v) = {} =>
              /\ FiniteRow(RowOf(x, v)) =>
                    RowOf(updated, v) = [j \in 1..x.c |-> NegInf]
              /\ NonFiniteRow(RowOf(updated, v))
        /\ layer = 1 => \A v \in Nodes : FiniteRow(RowOf(x, v))
        /\ pc \in {"projected", "returned"} => projected = Linear(linear, updated).val

C23_Witness ==
    /\ InLayer
    /\ model.kind = "GNNWithAggregation"
    /\ model.conv_op = "max"
    /\ layer = 2
    /\ pc = "projected"
    /\ N = 2
    /\ InEdges(0) = {}
    /\ FiniteRow(RowOf(x, 0))
    /\ RowOf(updated, 0) = [j \in 1..x.c |-> NegInf]
    /\ FiniteRow(RowOf(updated, 1))

\* a float that is a number and is not below zero
NonNegative(a) == a # NaN /\ Leq(Num(0), a)

\* C30: for finite input features every component of the output of a layer
\* and of a stacked model is >= 0.
C30_OutputsNonNegative ==
    /\ (InLayer /\ pc = "returned" /\ \A v \in Nodes : FiniteRow(RowOf(x, v))) =>
          \A v \in Nodes : \A c \in 1..out.c : NonNegative(RowOf(out, v)[c])
    /\ mpc = "forwarded" =>
          \A v \in 1..feat.n : \A c \in 1..feat.c : NonNegative(feat.rows[v][c])

\* ------------------------------------------------------------ order properties
\* the orders of n edges: the permutations of 1..n
EdgeOrders(n) == {p \in [1..n -> 1..n] : \A a, b \in 1..n : p[a] = p[b] => a = b}
\* the edge list with the same permutation applied to both of its rows
Permuted(ei, p) ==
    << [e \in 1..Len(ei[1]) |-> ei[1][p[e]]], [e \in 1..Len(ei[2]) |-> ei[2][p[e]]] >>
\* gather and aggregation with operator o on the edge list ei
GatherAggregate(o, ei) == Aggregated(o, message_passing(x, ei).val, ei, N).val
\* whatever the order of the edges, the result is the aggregated matrix
SameInEveryOrder(o) ==
    \A p \in EdgeOrders(E) : GatherAggregate(o, Permuted(edge_index, p)) = aggregated
\* the sum of the magnitudes of component c of the messages of the edges S
RECURSIVE MagnitudeSum(_, _)
MagnitudeSum(S, c) ==
    IF S = {} THEN 0
    ELSE LET e == CHOOSE d \in S : TRUE
         IN Abs(messages.rows[e][c][1]) + MagnitudeSum(S \ {e}, c)
\* every addition into every row is exact in float32: integer messages whose
\* magnitudes sum to at most 2^24
ExactSums ==
    \A v \in Nodes : \A c \in 1..x.c :
        /\ \A e \in InEdges(v) : messages.rows[e][c][2] = 1
        /\ MagnitudeSum(InEdges(v), c) <= 2 ^ Significand

\* C24 as stated: for each of the three operators, applying one permutation
\* to both rows of the edge list leaves every row of the aggregated matrix
\* unchanged.
C24_EdgeOrderInvariant ==
    \A o \in Ops : Returned(o) => SameInEveryOrder(o)

\* C24 as amended: aggregate_max gives the same matrix for every order of
\* the edges; aggregate_messages and aggregate_mean do so when every float32
\* addition into a row is exact, as for integer features whose magnitudes
\* sum to at most 2^24 in every row.
C24_EdgeOrderInvariantWhenExact ==
    /\ Returned("max") => SameInEveryOrder("max")
    /\ \A o \in {"sum", "mean"} : (Returned(o) /\ ExactSums) => SameInEveryOrder(o)

C24_Witness ==
    /\ Returned("mean")
    /\ ExactSums
    /\ E = 3
    /\ InEdges(0) = {1, 2, 3}
    /\ SourceOf(1) = 0
    /\ SourceOf(2) = 0
    /\ SourceOf(3) = 1
    /\ RowOf(aggregated, 0) = <<Norm(1, 3), Norm(-1, 3)>>

\* ------------------------------------------------------------ mode properties
InForward == mpc \in {"forward", "next", "conv", "bn", "dropout", "forwarded"}

\* the output of layer k of m on t, the layer not failing
EvalLayer(m, t, ei, k) ==
    LET lin == Parameters(m.theta, m.conv[k].in, m.conv[k].out)
        agg == Aggregated(m.conv_op, message_passing(t, ei).val, ei, t.n).val
    IN Relu(Linear(lin, update_nodes(t, agg).val).val)

\* the output of the first k layers of m on d in evaluation mode: bn1 with
\* its running statistics, no element dropped
RECURSIVE EvalForward(_, _, _)
EvalForward(m, d, k) ==
    IF k = 0 THEN d.x
    ELSE LET prev == EvalForward(m, d, k - 1)
             t == IF HasBn(m) /\ k = 2
                  THEN batch_norm(m.bn1, BnAffine(m.theta), prev, FALSE).val
                  ELSE prev
         IN EvalLayer(m, t, d.edge_index, k)

\* C26: in any interleaving of train, evaluate and infer on one model, a
\* forward pass inside train runs in training mode and one inside evaluate or
\* infer in evaluation mode, where dropout passes its input on; evaluate and
\* infer change neither the parameters nor the buffers and return what the
\* parameters, the buffers and the data determine, so that evaluate calls with
\* no train between them return the same accuracy; and the mode changes only
\* where a call sets it, so that it stays after the call.
C26_ModeFollowsCallEvaluationRepeats ==
    /\ [](InForward => model.training = (fn = "train"))
    /\ [][/\ (mpc = "dropout" /\ fn \in {"evaluate", "infer"}) => feat' = feat
          /\ fn \in {"evaluate", "infer"} =>
                /\ Learned(model') = Learned(model)
                /\ Buffers(model') = Buffers(model)
          /\ mpc # "mode" => model'.training = model.training
          /\ (mpc = "forwarded" /\ fn \in {"evaluate", "infer"}) =>
                LET preds == argmax(EvalForward(model, data, Len(model.conv)))
                IN /\ fn = "infer" => result'.val = preds
                   /\ fn = "evaluate" =>
                         result'.val = accuracy(preds, labels(data.x.n, model.conv[Len(model.conv)].out))]_vars

\* evaluate returned an accuracy of one half from a trained model with
\* dropout, which it left in evaluation mode
C26_Witness ==
    /\ mpc = "idle"
    /\ result = [fn |-> "evaluate", val |-> <<1, 2>>]
    /\ model.kind = "TuningGNN"
    /\ ~model.training
    /\ optimizer.step > 0
    /\ model.bn1.num_batches_tracked > 0
    /\ model.bn1.running_mean # BatchNorm1d(model.bn1.num_features).running_mean

\* ------------------------------------------------------------ shape properties
\* the convolutions among the first p modules of main
ConvsIn(main, p) ==
    {q \in 1..p : main[q].type \in {"ConvTranspose2d", "Conv2d"}}
\* every module that looks at the channel count is given as many channels as
\* the convolution before it returns
Chained(main) ==
    \A q \in ConvsIn(main, Len(main)) :
        LET r == CHOOSE r \in {0} \cup (q + 1)..Len(main) :
                     \/ r = 0 /\ \A r2 \in (q + 1)..Len(main) : main[r2].in = 0
                     \/ r # 0 /\ main[r].in # 0 /\ \A r2 \in (q + 1)..(r - 1) : main[r2].in = 0
        IN r # 0 => main[r].in = main[q].out
GeneratorSides == <<1, 4, 8, 16, 32, 64>>
DiscriminatorSides == <<64, 32, 16, 8, 4, 1>>

\* C29: the Generator maps a latent tensor (B, 100, 1, 1) to (B, 3, 64, 64)
\* through the sides 1, 4, 8, 16, 32, 64 and the Discriminator maps
\* (B, 3, 64, 64) to (B, 1, 1, 1) through 64, 32, 16, 8, 4, 1, no module
\* raising; each layer is given the channel count the layer before it
\* returns; so what the Generator returns on such a latent tensor is accepted
\* by the Discriminator.
C29_ShapesChainThroughBothNets ==
    /\ Chained(Generator)
    /\ Chained(Discriminator)
    /\ (net = "generator" /\ arg[2] = latent_vector_size /\ arg[3] = 1 /\ arg[4] = 1) =>
          /\ gan_err = "none"
          /\ shape[1] = arg[1]
          /\ shape[3] = GeneratorSides[Cardinality(ConvsIn(Generator, pos)) + 1]
          /\ shape[4] = shape[3]
          /\ pos = Len(Generator) => shape = <<arg[1], 3, 64, 64>>
    /\ (net = "discriminator" /\ arg[2] = 3 /\ arg[3] = 64 /\ arg[4] = 64) =>
          /\ gan_err = "none"
          /\ shape[1] = arg[1]
          /\ shape[3] = DiscriminatorSides[Cardinality(ConvsIn(Discriminator, pos)) + 1]
          /\ shape[4] = shape[3]
          /\ pos = Len(Discriminator) => shape = <<arg[1], 1, 1, 1>>

\* the discriminator has gone through the generator's images
C29_Witness ==
    /\ net = "discriminator"
    /\ arg = fake_images
    /\ arg = <<MaxBatch, 3, 64, 64>>
    /\ pos = Len(Discriminator)
    /\ shape = <<MaxBatch, 1, 1, 1>>

\* ------------------------------------------------------------ handler properties
Answered == response.status # 0
\* the value under 'features' of a JSON object, null when absent
FeaturesSent == IF request.items = <<>> THEN JNull ELSE request.items[1]

\* C27: the handler never raises and answers 200, 400 or 500: for a JSON
\* object, 400 whenever 'features' is absent, empty or not a list, and 400
\* whenever the list has not 4 elements; 200, with a class and its
\* probabilities, only for a list of exactly 4 values; every other failure
\* is answered 500 with a message.
C27_StatusFollowsFeatures ==
    Answered =>
        /\ response.status \in {200, 400, 500}
        /\ (request.t = "obj" /\ (~Truthy(FeaturesSent) \/ FeaturesSent.t # "list")) =>
              response.status = 400
        /\ (request.t = "obj" /\ FeaturesSent.t = "list"
                /\ Len(FeaturesSent.items) # in_features) =>
              response.status = 400
        /\ response.status = 200 =>
              /\ request.t = "obj"
              /\ FeaturesSent.t = "list"
              /\ Len(FeaturesSent.items) = in_features
              /\ response.body.class \in 0..(out_features - 1)
              /\ response.body.probabilities.of = "softmax"
        /\ response.status # 200 => response.body.error # "none"

\* C28: while the model file is missing, a request to /predict is answered
\* 500 with the error 'Model file not found'.
C28_MissingFileAnswered ==
    [][(/\ app = "running"
        /\ app' = "running"
        /\ ~model_file.exists
        /\ model_file' = model_file
        /\ request' # request) =>
          /\ response'.status = 500
          /\ response'.body.error = "Model file not found"]_vars

\* ------------------------------------------------------------ export properties
\* the inputs the modules are compared on: the samples, two images at once,
\* and a tensor that does not fill whole rows of Pixels elements
Inputs ==
    Samples
    \cup {Tensor(2, Pixels, <<[j \in 1..Pixels |-> Num(1)],
                              [j \in 1..Pixels |-> IF j % 2 = 1 THEN Num(1) ELSE Num(-1)]>>),
          Tensor(2, Pixels, <<[j \in 1..Pixels |-> Num(1)], [j \in 1..Pixels |-> Num(-1)]>>),
          Tensor(1, Pixels + 1, <<[j \in 1..(Pixels + 1) |-> Num(1)]>>)}
Bound(n) == modules[n].kind # "none"
SameOutput(a, b) == \A u \in {a}, w \in {b} : u.ok = w.ok /\ u.val = w.val /\ u.err = w.err
\* the activations ControlFlowNet's condition looks at
Activations(p, t) ==
    Bind(Bind(Bind(view(t, Pixels),
                   LAMBDA v : Layer(p["fc1"], v)),
              LAMBDA h1 : Layer(p["fc2a"], h1)),
         LAMBDA h2 : Layer(p["fc2b"], h2)).val

SavedAs == [f \in FileNames |->
               IF f = "traced_mnist_model.pt" THEN "traced_model" ELSE "scripted_cf_model"]
LoadedAs == [f \in FileNames |->
                IF f = "traced_mnist_model.pt" THEN "loaded_traced" ELSE "loaded_scripted"]

====
